---------------------------- MODULE Spec2Model ----------------------------
(***************************************************************************)
(* The settlement ledger of the Strava challenge (whitelist revision of    *)
(* contract StravaChallenge): challenge records, per-participant stake     *)
(* bookkeeping, the lazily computed lifecycle state and the operations     *)
(* that move staked ether.  Every external function of the contract is one *)
(* action; a call that reverts leaves storage untouched and only records   *)
(* the revert reason in `result`.                                          *)
(***************************************************************************)
EXTENDS Integers, Sequences, FiniteSets, TLC

(***************************************************************************)
(* Bounds of the model.                                                    *)
(***************************************************************************)
MaxChallenges == 1
MaxTicks == 5

(***************************************************************************)
(* Program constants.                                                      *)
(***************************************************************************)
days == 86400
GRACE_PERIOD == 7 * days
EMERGENCY_PERIOD == 14 * days
SIGNATURE_MAX_AGE == 30 * days

(***************************************************************************)
(* Identities.  ZERO is address(0); Unrelated is the address ECDSA         *)
(* recovery yields for a signature made over some other message: an        *)
(* address nobody controls.                                                *)
(***************************************************************************)
Users == {"A", "B", "C"}
OracleKeys == {"O", "O2"}
ZERO == "0x0"
Unrelated == "0xdead"
Addresses == Users \cup OracleKeys \cup {ZERO, Unrelated}

ZeroHash == "0x00"
DataHashes == {ZeroHash, "h1"}

(* enum ChallengeState *)
PENDING == "PENDING"
ACTIVE == "ACTIVE"
GRACE == "GRACE_PERIOD"
FINALIZED == "FINALIZED"
CANCELLED == "CANCELLED"
COMPLETED == "COMPLETED"
ChallengeState == {PENDING, ACTIVE, GRACE, FINALIZED, CANCELLED, COMPLETED}

(***************************************************************************)
(* Time.  block.timestamp starts at the deployment time and advances in    *)
(* steps of TickStep.                                                      *)
(***************************************************************************)
DeployTime == 40 * days
TickStep == 7 * days
MaxTime == DeployTime + MaxTicks * TickStep

OK == "ok"
NoRet == "none"
NoId == 0 - 1

VARIABLES
    challenges,               \* Challenge[] challenges (index = id + 1)
    participants,             \* participants[id + 1][address]
    allowedParticipantsList,  \* allowedParticipantsList[id + 1]
    oracle,                   \* address oracle
    now,                      \* block.timestamp
    balance,                  \* ether held by the contract
    hist,                     \* per challenge: what has been paid in and out
    lastOp,                   \* the ledger function called last
    lastId,                   \* the challengeId it was called with
    result,                   \* OK, or the revert reason of the last call
    ret,                      \* the value returned by the last view call
    db_challenges,            \* oracle database: table challenges
    db_participants,          \* oracle database: table participants
    mileage_snapshots,        \* oracle database: table mileage_snapshots
    sweep,                    \* runs of the mileage sweep
    finalization,             \* finalization requests being served
    wall,                     \* the service's clock, Date.now() in seconds
    deployment,               \* process.env and the columns of table participants
    syncs,                    \* runs of the mirror sync
    confirmation,             \* confirm requests being served
    setting,                  \* set-mileage requests being served
    lazy,                     \* the ledger of the minimum-participants revision
    explicit                  \* the ledger of the explicit-transition revision

storage == <<challenges, participants, allowedParticipantsList, oracle, balance, hist>>
(* The state of the oracle service. *)
service == <<db_challenges, db_participants, mileage_snapshots, sweep, finalization, wall,
             deployment, syncs, confirmation, setting>>
(* The ledgers of the two revisions with a minimum number of participants. *)
revisions == <<lazy, explicit>>
vars == <<challenges, participants, allowedParticipantsList, oracle, now, balance,
          hist, lastOp, lastId, result, ret, db_challenges, db_participants,
          mileage_snapshots, sweep, finalization, wall, deployment, syncs,
          confirmation, setting, lazy, explicit>>

(* The zero value of a mapping slot of type Participant. *)
EmptyParticipant ==
    [userAddress |-> ZERO, stravaUserId |-> "", stake |-> 0, hasJoined |-> FALSE]

(* History kept beside the contract: ether paid in by joins, ether paid    *)
(* out per recipient, and how often each operation has succeeded.          *)
EmptyHist ==
    [deposited |-> 0,
     refunded |-> [a \in Users |-> 0],
     refunds |-> [a \in Users |-> 0],
     prize |-> 0,
     prizeTo |-> ZERO,
     joins |-> [a \in Users |-> 0],
     claims |-> 0,
     cancelEvents |-> 0]

ChallengeIds == 0 .. (Len(challenges) - 1)
Exists(challengeId) == challengeId < Len(challenges)
Chal(challengeId) == challenges[challengeId + 1]
Part(challengeId, a) == participants[challengeId + 1][a]
Allowed(challengeId) == allowedParticipantsList[challengeId + 1]

Range(s) == {s[i] : i \in 1 .. Len(s)}

RECURSIVE SumOver(_, _)
SumOver(f, S) ==
    IF S = {} THEN 0
    ELSE LET x == CHOOSE y \in S : TRUE IN f[x] + SumOver(f, S \ {x})

(***************************************************************************)
(* Finalization requests (GET /oracle/challenge/:id/finalization).  A      *)
(* request reads the database at several awaits; pc is the await it is at. *)
(* What it has read so far is kept with it, and its response once it has   *)
(* answered; `has` names the fields the response body carries.             *)
(***************************************************************************)
Requests == {1, 2}

NoResponse ==
    [status |-> 0, error |-> "", has |-> {}, winner |-> ZERO, results |-> <<>>,
     dataHash |-> ZeroHash, timestamp |-> 0,
     signature |-> [signer |-> ZERO, msg |-> <<>>],
     confirmedCount |-> 0, totalParticipants |-> 0, timeRemaining |-> 0,
     timeUntilCanFinalize |-> 0, finalizationReason |-> ""]

IdleRequest ==
    [pc |-> "idle", challengeId |-> NoId, now |-> 0, end_time |-> 0,
     allConfirmed |-> FALSE, confirmedCount |-> 0, totalParticipants |-> 0,
     decidedAt |-> 0, mileage |-> <<>>, timestamp |-> 0, readJoin |-> {},
     readSnapshots |-> <<>>, overlapped |-> {}, response |-> NoResponse]

(***************************************************************************)
(* The deployment of the service: the environment of its process and the   *)
(* columns of table participants.  The migrations create the table without *)
(* the columns confirmation_signature and confirmed_at that POST           *)
(* /participants/confirm writes; CREATE TABLE IF NOT EXISTS keeps a table  *)
(* that is there already, with whatever columns it has.                    *)
(***************************************************************************)
MigratedColumns ==
    {"challenge_id", "wallet_address", "strava_user_id", "joined_at", "has_joined",
     "stake_paid", "confirmed"}
ConfirmationColumns == {"confirmation_signature", "confirmed_at"}
NoPrivateKey == ""

Development ==
    [NODE_ENV |-> "development", MOCK_STRAVA |-> "true", ORACLE_PRIVATE_KEY |-> "O",
     participants |-> MigratedColumns]
Production == [Development EXCEPT !.NODE_ENV = "production", !.MOCK_STRAVA = "false"]
WithConfirmationColumns(d) ==
    [d EXCEPT !.participants = MigratedColumns \cup ConfirmationColumns]

(***************************************************************************)
(* The other handlers of the service that wait between their reads and     *)
(* writes: runs of the mirror sync and of the mileage sweep, confirm and    *)
(* set-mileage requests.  pc is the await a run or request is at.          *)
(***************************************************************************)
SyncRuns == {1, 2}
ConfirmRequests == {1, 2}
SweepRuns == {1}
SetMileageRequests == {1}

NoRow == [id |-> NoId, start_time |-> 0, end_time |-> 0]

IdleSync ==
    [pc |-> "idle", caller |-> "", challengeId |-> NoId, upto |-> 0,
     challengeData |-> NoRow, addresses |-> <<>>, participantData |-> EmptyParticipant]

IdleConfirm ==
    [pc |-> "idle", challengeId |-> NoId, walletAddress |-> "",
     signature |-> [signer |-> ZERO, msg |-> <<>>], end_time |-> 0]

NoParticipant == [challenge_id |-> NoId, wallet_address |-> "", strava_user_id |-> ""]

IdleSweep ==
    [pc |-> "idle", now |-> 0, challenges |-> <<>>, participants |-> {},
     participant |-> NoParticipant, miles |-> 0]

(* What is not a number, in the body of a request.                         *)
NaN == 0 - 2

IdleSetting ==
    [pc |-> "idle", challengeId |-> NoId, normalizedAddress |-> "",
     stravaUserId |-> "", miles |-> 0]

(* The service after start(): no run and no request under way.             *)
Started ==
    /\ sweep = [w \in SweepRuns |-> IdleSweep]
    /\ finalization = [r \in Requests |-> IdleRequest]
    /\ syncs = [s \in SyncRuns |-> IdleSync]
    /\ confirmation = [c \in ConfirmRequests |-> IdleConfirm]
    /\ setting = [m \in SetMileageRequests |-> IdleSetting]

(* The revisions of src/contracts/StravaChallenge.sol key their challenges *)
(* by a bytes32 identifier chosen by the creator; a key not yet used maps  *)
(* to the all-zero Challenge.                                              *)
ChallengeKeys == {1}

NoChallenge ==
    [id |-> 0, creator |-> ZERO, startTime |-> 0, endTime |-> 0, stakeAmount |-> 0,
     minParticipants |-> 0, totalStaked |-> 0, state |-> PENDING, winner |-> ZERO,
     finalDataHash |-> ZeroHash, participantCount |-> 0]

(* A ledger of these revisions after its constructor: the storage          *)
(* variables of the contract, the ether it holds, and the PrizeClaimed     *)
(* events it has emitted (winner, amount).                                 *)
EmptyLedger ==
    [challenges |-> [k \in ChallengeKeys |-> NoChallenge],
     participants |-> [k \in ChallengeKeys |-> [a \in Addresses |-> EmptyParticipant]],
     participantList |-> [k \in ChallengeKeys |-> <<>>],
     oracle |-> "O",
     balance |-> 0,
     prizeClaimed |-> [k \in ChallengeKeys |-> <<>>]]

(***************************************************************************)
(* constructor(address _oracle)                                            *)
(***************************************************************************)
Init ==
    /\ challenges = <<>>
    /\ participants = <<>>
    /\ allowedParticipantsList = <<>>
    /\ oracle = "O"
    /\ now = DeployTime
    /\ balance = 0
    /\ hist = <<>>
    /\ lastOp = "constructor"
    /\ lastId = NoId
    /\ result = OK
    /\ ret = NoRet
    /\ db_challenges = {}
    /\ db_participants = {}
    /\ mileage_snapshots = <<>>
    /\ wall = DeployTime
    /\ deployment = Development
    /\ Started
    /\ lazy = EmptyLedger
    /\ explicit = EmptyLedger

(***************************************************************************)
(* The chain's clock: a later block has a later timestamp.                 *)
(***************************************************************************)
Tick ==
    /\ now + TickStep <= MaxTime
    /\ now' = now + TickStep
    /\ lastOp' = "tick"
    /\ lastId' = NoId
    /\ result' = OK
    /\ ret' = NoRet
    /\ UNCHANGED <<storage, service, revisions>>

(***************************************************************************)
(* createChallenge(startTime, endTime, stakeAmount, allowedAddresses)      *)
(***************************************************************************)
(* The whitelist loop: the first require that fails, scanning entry by     *)
(* entry; the list built so far starts with the creator.                   *)
RECURSIVE whitelistRevert(_, _, _)
whitelistRevert(sender, allowedAddresses, i) ==
    IF i > Len(allowedAddresses) THEN OK
    ELSE IF allowedAddresses[i] = ZERO THEN "Invalid address in whitelist"
    ELSE IF allowedAddresses[i] = sender THEN "Creator is automatically included"
    ELSE IF \E j \in 1 .. (i - 1) : allowedAddresses[j] = allowedAddresses[i]
         THEN "Duplicate address in whitelist"
    ELSE whitelistRevert(sender, allowedAddresses, i + 1)

\* a creation that accepts a stake of zero
createChallengeRevert_NoStakeCheck(sender, startTime, endTime, stakeAmount, allowedAddresses) ==
    IF ~(startTime > now) THEN "Start time must be in future"
    ELSE IF ~(endTime > startTime) THEN "End time must be after start"
    ELSE IF ~(Len(allowedAddresses) >= 1) THEN "Need at least 1 other participant"
    ELSE whitelistRevert(sender, allowedAddresses, 1)

createChallengeRevert(sender, startTime, endTime, stakeAmount, allowedAddresses) ==
    IF ~(startTime > now) THEN "Start time must be in future"
    ELSE IF ~(endTime > startTime) THEN "End time must be after start"
    ELSE IF ~(stakeAmount > 0) THEN "Stake must be positive"
    ELSE IF ~(Len(allowedAddresses) >= 1) THEN "Need at least 1 other participant"
    ELSE whitelistRevert(sender, allowedAddresses, 1)

\* a creation whose push of the challenge record survives a whitelist that
\* fails validation
createChallenge_PushKept(sender, startTime, endTime, stakeAmount, allowedAddresses) ==
    LET err == createChallengeRevert(sender, startTime, endTime, stakeAmount,
                                     allowedAddresses)
        challengeId == Len(challenges)
        pushed == /\ startTime > now
                  /\ endTime > startTime
                  /\ stakeAmount > 0
                  /\ Len(allowedAddresses) >= 1
    IN  /\ lastOp' = "createChallenge"
        /\ lastId' = IF err = OK THEN challengeId ELSE NoId
        /\ result' = err
        /\ ret' = NoRet
        /\ IF pushed
           THEN /\ challenges' = Append(challenges,
                      [id |-> challengeId,
                       creator |-> sender,
                       startTime |-> startTime,
                       endTime |-> endTime,
                       stakeAmount |-> stakeAmount,
                       totalStaked |-> 0,
                       state |-> PENDING,
                       winner |-> ZERO,
                       finalDataHash |-> ZeroHash,
                       participantCount |-> 0])
                /\ allowedParticipantsList' =
                       Append(allowedParticipantsList,
                              IF err = OK THEN <<sender>> \o allowedAddresses
                              ELSE <<sender>>)
                /\ participants' =
                       Append(participants, [a \in Addresses |-> EmptyParticipant])
                /\ hist' = Append(hist, EmptyHist)
                /\ UNCHANGED <<oracle, balance>>
           ELSE UNCHANGED storage
        /\ UNCHANGED <<now, service, revisions>>

createChallenge(sender, startTime, endTime, stakeAmount, allowedAddresses) ==
    LET err == createChallengeRevert(sender, startTime, endTime, stakeAmount,
                                     allowedAddresses)
        challengeId == Len(challenges)
    IN  /\ lastOp' = "createChallenge"
        /\ lastId' = IF err = OK THEN challengeId ELSE NoId
        /\ result' = err
        /\ ret' = NoRet
        /\ IF err = OK
           THEN /\ challenges' = Append(challenges,
                      [id |-> challengeId,
                       creator |-> sender,
                       startTime |-> startTime,
                       endTime |-> endTime,
                       stakeAmount |-> stakeAmount,
                       totalStaked |-> 0,
                       state |-> PENDING,
                       winner |-> ZERO,
                       finalDataHash |-> ZeroHash,
                       participantCount |-> 0])
                /\ allowedParticipantsList' =
                       Append(allowedParticipantsList, <<sender>> \o allowedAddresses)
                /\ participants' =
                       Append(participants, [a \in Addresses |-> EmptyParticipant])
                /\ hist' = Append(hist, EmptyHist)
                /\ UNCHANGED <<oracle, balance>>
           ELSE UNCHANGED storage
        /\ UNCHANGED <<now, service, revisions>>

(***************************************************************************)
(* isAllowedParticipant(challengeId, addr)                                 *)
(***************************************************************************)
isAllowedParticipant(challengeId, addr) ==
    \E i \in 1 .. Len(Allowed(challengeId)) : Allowed(challengeId)[i] = addr

(***************************************************************************)
(* getEffectiveState(challengeId): the lifecycle state computed from the   *)
(* stored state, the clock and the participant count.                      *)
(***************************************************************************)
(* Variants of getEffectiveState with a slip in them; the properties below  *)
(* are checked to tell each of them from the code.                         *)
\* the stored terminal states are not returned as-is
effectiveStateOf_NotSticky(storedState, startTime, endTime, participantCount, requiredParticipants, timestamp) ==
    IF /\ storedState = PENDING
       /\ timestamp >= startTime
       /\ participantCount < requiredParticipants
    THEN CANCELLED
    ELSE IF timestamp >= endTime THEN GRACE
    ELSE IF timestamp >= startTime THEN ACTIVE
    ELSE PENDING

\* the end of the challenge is looked at before under-subscription
effectiveStateOf_GraceFirst(storedState, startTime, endTime, participantCount, requiredParticipants, timestamp) ==
    IF storedState = COMPLETED \/ storedState = FINALIZED \/ storedState = CANCELLED
    THEN storedState
    ELSE IF timestamp >= endTime THEN GRACE
    ELSE IF /\ storedState = PENDING
            /\ timestamp >= startTime
            /\ participantCount < requiredParticipants
    THEN CANCELLED
    ELSE IF timestamp >= startTime THEN ACTIVE
    ELSE PENDING

\* under-subscription is looked at whatever the stored state
effectiveStateOf_NoActive(storedState, startTime, endTime, participantCount, requiredParticipants, timestamp) ==
    IF storedState = COMPLETED \/ storedState = FINALIZED \/ storedState = CANCELLED
    THEN storedState
    ELSE IF /\ storedState = PENDING
            /\ timestamp >= startTime
            /\ participantCount < requiredParticipants
    THEN CANCELLED
    ELSE IF timestamp >= endTime THEN GRACE
    ELSE PENDING

effectiveStateOf_AnyStored(storedState, startTime, endTime, participantCount, requiredParticipants, timestamp) ==
    IF storedState = COMPLETED \/ storedState = FINALIZED \/ storedState = CANCELLED
    THEN storedState
    ELSE IF /\ timestamp >= startTime
            /\ participantCount < requiredParticipants
    THEN CANCELLED
    ELSE IF timestamp >= endTime THEN GRACE
    ELSE IF timestamp >= startTime THEN ACTIVE
    ELSE PENDING

effectiveStateOf(storedState, startTime, endTime, participantCount, requiredParticipants, timestamp) ==
    IF storedState = COMPLETED \/ storedState = FINALIZED \/ storedState = CANCELLED
    THEN storedState
    ELSE IF /\ storedState = PENDING
            /\ timestamp >= startTime
            /\ participantCount < requiredParticipants
    THEN CANCELLED
    ELSE IF timestamp >= endTime THEN GRACE
    ELSE IF timestamp >= startTime THEN ACTIVE
    ELSE PENDING

getEffectiveState(challengeId) ==
    effectiveStateOf(Chal(challengeId).state, Chal(challengeId).startTime,
                     Chal(challengeId).endTime, Chal(challengeId).participantCount,
                     Len(Allowed(challengeId)), now)

\* a getter that writes the state it computed
getEffectiveStateCall_Materialize(challengeId) ==
    /\ lastOp' = "getEffectiveState"
    /\ lastId' = challengeId
    /\ result' = IF Exists(challengeId) THEN OK ELSE "Challenge does not exist"
    /\ ret' = IF Exists(challengeId) THEN getEffectiveState(challengeId) ELSE NoRet
    /\ IF Exists(challengeId)
       THEN challenges' = [challenges EXCEPT
                ![challengeId + 1].state = getEffectiveState(challengeId)]
       ELSE UNCHANGED challenges
    /\ UNCHANGED <<participants, allowedParticipantsList, oracle, balance, hist, now,
                   service, revisions>>

(* A call of the view function: it returns a value and writes nothing. *)
getEffectiveStateCall(challengeId) ==
    /\ lastOp' = "getEffectiveState"
    /\ lastId' = challengeId
    /\ result' = IF Exists(challengeId) THEN OK ELSE "Challenge does not exist"
    /\ ret' = IF Exists(challengeId) THEN getEffectiveState(challengeId) ELSE NoRet
    /\ UNCHANGED <<storage, now, service, revisions>>

(***************************************************************************)
(* joinChallenge(challengeId, stravaUserId) payable                        *)
(***************************************************************************)
\* a join that does not look at hasJoined
joinChallengeRevert_NoJoinedCheck(sender, challengeId, stravaUserId, value) ==
    IF ~Exists(challengeId) THEN "Challenge does not exist"
    ELSE IF ~isAllowedParticipant(challengeId, sender) THEN "Not on whitelist"
    ELSE IF getEffectiveState(challengeId) # PENDING
         THEN "Challenge not accepting participants"
    ELSE IF ~(now < Chal(challengeId).startTime) THEN "Registration closed"
    ELSE IF value # Chal(challengeId).stakeAmount THEN "Incorrect stake amount"
    ELSE IF ~(Len(stravaUserId) > 0) THEN "Invalid Strava ID"
    ELSE OK

\* a join that does not look at the whitelist
joinChallengeRevert_NoWhitelist(sender, challengeId, stravaUserId, value) ==
    IF ~Exists(challengeId) THEN "Challenge does not exist"
    ELSE IF getEffectiveState(challengeId) # PENDING
         THEN "Challenge not accepting participants"
    ELSE IF ~(now < Chal(challengeId).startTime) THEN "Registration closed"
    ELSE IF value # Chal(challengeId).stakeAmount THEN "Incorrect stake amount"
    ELSE IF Part(challengeId, sender).hasJoined THEN "Already joined"
    ELSE IF ~(Len(stravaUserId) > 0) THEN "Invalid Strava ID"
    ELSE OK

\* a join that looks at hasJoined before the state and the stake sent
joinChallengeRevert_JoinedFirst(sender, challengeId, stravaUserId, value) ==
    IF ~Exists(challengeId) THEN "Challenge does not exist"
    ELSE IF ~isAllowedParticipant(challengeId, sender) THEN "Not on whitelist"
    ELSE IF Part(challengeId, sender).hasJoined THEN "Already joined"
    ELSE IF getEffectiveState(challengeId) # PENDING
         THEN "Challenge not accepting participants"
    ELSE IF ~(now < Chal(challengeId).startTime) THEN "Registration closed"
    ELSE IF value # Chal(challengeId).stakeAmount THEN "Incorrect stake amount"
    ELSE IF ~(Len(stravaUserId) > 0) THEN "Invalid Strava ID"
    ELSE OK

joinChallengeRevert(sender, challengeId, stravaUserId, value) ==
    IF ~Exists(challengeId) THEN "Challenge does not exist"
    ELSE IF ~isAllowedParticipant(challengeId, sender) THEN "Not on whitelist"
    ELSE IF getEffectiveState(challengeId) # PENDING
         THEN "Challenge not accepting participants"
    ELSE IF ~(now < Chal(challengeId).startTime) THEN "Registration closed"
    ELSE IF value # Chal(challengeId).stakeAmount THEN "Incorrect stake amount"
    ELSE IF Part(challengeId, sender).hasJoined THEN "Already joined"
    ELSE IF ~(Len(stravaUserId) > 0) THEN "Invalid Strava ID"
    ELSE OK

joinChallenge(sender, challengeId, stravaUserId, value) ==
    LET err == joinChallengeRevert(sender, challengeId, stravaUserId, value)
        c == challengeId + 1
    IN  /\ lastOp' = "joinChallenge"
        /\ lastId' = challengeId
        /\ result' = err
        /\ ret' = NoRet
        /\ IF err = OK
           THEN /\ participants' = [participants EXCEPT ![c][sender] =
                      [userAddress |-> sender,
                       stravaUserId |-> stravaUserId,
                       stake |-> value,
                       hasJoined |-> TRUE]]
                /\ challenges' = [challenges EXCEPT
                      ![c].totalStaked = @ + value,
                      ![c].participantCount = @ + 1]
                /\ balance' = balance + value
                /\ hist' = [hist EXCEPT ![c].deposited = @ + value,
                                        ![c].joins[sender] = @ + 1]
                /\ UNCHANGED <<allowedParticipantsList, oracle>>
           ELSE UNCHANGED storage
        /\ UNCHANGED <<now, service, revisions>>

(***************************************************************************)
(* Signatures.  A signature is the pair of the key that made it and the    *)
(* message it was made over; ECDSA recovery against a message returns the  *)
(* signing key when the message is the signed one, and otherwise an        *)
(* address unrelated to any key in use.  abi.encodePacked of a fixed       *)
(* prefix followed by fixed-width fields is injective, so a message is the *)
(* tuple of its prefix and fields.                                         *)
(***************************************************************************)
finalizeMessage(challengeId, winner, dataHash, timestamp) ==
    <<"FINALIZE_CHALLENGE_", challengeId, winner, dataHash, timestamp>>

cancelMessage(challengeId) == <<"CANCEL_CHALLENGE_", challengeId>>

(* The message a participant signs off-chain to confirm its participation. *)
confirmMessage(challengeId) == <<"CONFIRM_CHALLENGE_", challengeId>>

Sign(key, message) == [signer |-> key, msg |-> message]

\* a recovery that returns the signing key whatever message was signed
recover_AnyMessage(messageHash, signature) == signature.signer

recover(messageHash, signature) ==
    IF signature.msg = messageHash THEN signature.signer ELSE Unrelated

(***************************************************************************)
(* claimPrizeWithSignature(challengeId, winner, dataHash, timestamp,       *)
(*                         oracleSignature)                                *)
(***************************************************************************)
\* a claim that accepts the signature of any oracle key, registered or not
claimPrizeWithSignatureRevert_AnyOracleKey(sender, challengeId, winner, dataHash, timestamp, oracleSignature) ==
    IF ~Exists(challengeId) THEN "Challenge does not exist"
    ELSE IF getEffectiveState(challengeId) # GRACE THEN "Challenge not in grace period"
    ELSE IF ~(now >= Chal(challengeId).endTime) THEN "Challenge not ended"
    ELSE IF ~(now < Chal(challengeId).endTime + EMERGENCY_PERIOD)
         THEN "Emergency period active"
    ELSE IF sender # winner THEN "Caller must be winner"
    ELSE IF ~Part(challengeId, winner).hasJoined THEN "Winner not a participant"
    ELSE IF dataHash = ZeroHash THEN "Invalid data hash"
    ELSE IF ~(timestamp <= now) THEN "Signature from future"
    ELSE IF ~(now - timestamp < SIGNATURE_MAX_AGE) THEN "Signature too old"
    ELSE IF recover(finalizeMessage(challengeId, winner, dataHash, timestamp),
                    oracleSignature) \notin OracleKeys
         THEN "Invalid oracle signature"
    ELSE IF balance < Chal(challengeId).totalStaked THEN "Transfer failed"
    ELSE OK

claimPrizeWithSignatureRevert(sender, challengeId, winner, dataHash, timestamp, oracleSignature) ==
    IF ~Exists(challengeId) THEN "Challenge does not exist"
    ELSE IF getEffectiveState(challengeId) # GRACE THEN "Challenge not in grace period"
    ELSE IF ~(now >= Chal(challengeId).endTime) THEN "Challenge not ended"
    ELSE IF ~(now < Chal(challengeId).endTime + EMERGENCY_PERIOD)
         THEN "Emergency period active"
    ELSE IF sender # winner THEN "Caller must be winner"
    ELSE IF ~Part(challengeId, winner).hasJoined THEN "Winner not a participant"
    ELSE IF dataHash = ZeroHash THEN "Invalid data hash"
    ELSE IF ~(timestamp <= now) THEN "Signature from future"
    ELSE IF ~(now - timestamp < SIGNATURE_MAX_AGE) THEN "Signature too old"
    ELSE IF recover(finalizeMessage(challengeId, winner, dataHash, timestamp),
                    oracleSignature) # oracle
         THEN "Invalid oracle signature"
    ELSE IF balance < Chal(challengeId).totalStaked THEN "Transfer failed"
    ELSE OK

\* a claim that only finalizes: the prize is left for a second call
claimPrizeWithSignature_FinalizeOnly(sender, challengeId, winner, dataHash, timestamp, oracleSignature) ==
    LET err == claimPrizeWithSignatureRevert(sender, challengeId, winner, dataHash,
                                             timestamp, oracleSignature)
        c == challengeId + 1
    IN  /\ lastOp' = "claimPrizeWithSignature"
        /\ lastId' = challengeId
        /\ result' = err
        /\ ret' = NoRet
        /\ IF err = OK
           THEN /\ challenges' = [challenges EXCEPT
                      ![c].state = FINALIZED,
                      ![c].winner = winner,
                      ![c].finalDataHash = dataHash]
                /\ UNCHANGED <<participants, allowedParticipantsList, oracle, balance,
                               hist>>
           ELSE UNCHANGED storage
        /\ UNCHANGED <<now, service, revisions>>

claimPrizeWithSignature(sender, challengeId, winner, dataHash, timestamp, oracleSignature) ==
    LET err == claimPrizeWithSignatureRevert(sender, challengeId, winner, dataHash,
                                             timestamp, oracleSignature)
        c == challengeId + 1
        prize == Chal(challengeId).totalStaked
    IN  /\ lastOp' = "claimPrizeWithSignature"
        /\ lastId' = challengeId
        /\ result' = err
        /\ ret' = NoRet
        /\ IF err = OK
           THEN /\ challenges' = [challenges EXCEPT
                      ![c].state = COMPLETED,
                      ![c].winner = winner,
                      ![c].finalDataHash = dataHash,
                      ![c].totalStaked = 0]
                /\ balance' = balance - prize
                /\ hist' = [hist EXCEPT ![c].prize = @ + prize, ![c].claims = @ + 1,
                                        ![c].prizeTo = winner]
                /\ UNCHANGED <<participants, allowedParticipantsList, oracle>>
           ELSE UNCHANGED storage
        /\ UNCHANGED <<now, service, revisions>>

(***************************************************************************)
(* claimPrize(challengeId): the claim from an already finalized challenge. *)
(***************************************************************************)
claimPrizeRevert(sender, challengeId) ==
    IF ~Exists(challengeId) THEN "Challenge does not exist"
    ELSE IF Chal(challengeId).state # FINALIZED THEN "Challenge not finalized"
    ELSE IF sender # Chal(challengeId).winner THEN "Only winner can claim"
    ELSE IF balance < Chal(challengeId).totalStaked THEN "Transfer failed"
    ELSE OK

claimPrize(sender, challengeId) ==
    LET err == claimPrizeRevert(sender, challengeId)
        c == challengeId + 1
        prize == Chal(challengeId).totalStaked
    IN  /\ lastOp' = "claimPrize"
        /\ lastId' = challengeId
        /\ result' = err
        /\ ret' = NoRet
        /\ IF err = OK
           THEN /\ challenges' = [challenges EXCEPT
                      ![c].state = COMPLETED,
                      ![c].totalStaked = 0]
                /\ balance' = balance - prize
                /\ hist' = [hist EXCEPT ![c].prize = @ + prize, ![c].claims = @ + 1,
                                        ![c].prizeTo = sender]
                /\ UNCHANGED <<participants, allowedParticipantsList, oracle>>
           ELSE UNCHANGED storage
        /\ UNCHANGED <<now, service, revisions>>

(***************************************************************************)
(* cancelChallengeByConsent(challengeId, signatures)                       *)
(***************************************************************************)
(* The verification loop: the first require that fails, signature by       *)
(* signature.                                                              *)
RECURSIVE signaturesRevert(_, _, _)
signaturesRevert(challengeId, signatures, i) ==
    IF i > Len(signatures) THEN OK
    ELSE LET signer == recover(cancelMessage(challengeId), signatures[i])
         IN  IF ~Part(challengeId, signer).hasJoined THEN "Invalid signature"
             ELSE IF \E j \in 1 .. (i - 1) :
                        recover(cancelMessage(challengeId), signatures[j]) = signer
                  THEN "Duplicate signature"
             ELSE signaturesRevert(challengeId, signatures, i + 1)

\* a cancellation that does not count the signatures
cancelChallengeByConsentRevert_NoCount(challengeId, signatures) ==
    IF ~Exists(challengeId) THEN "Challenge does not exist"
    ELSE IF getEffectiveState(challengeId) \notin {PENDING, ACTIVE, GRACE}
         THEN "Challenge cannot be cancelled"
    ELSE signaturesRevert(challengeId, signatures, 1)

cancelChallengeByConsentRevert(challengeId, signatures) ==
    IF ~Exists(challengeId) THEN "Challenge does not exist"
    ELSE IF getEffectiveState(challengeId) \notin {PENDING, ACTIVE, GRACE}
         THEN "Challenge cannot be cancelled"
    ELSE IF Len(signatures) # Chal(challengeId).participantCount
         THEN "Need all participant signatures"
    ELSE signaturesRevert(challengeId, signatures, 1)

cancelChallengeByConsent(challengeId, signatures) ==
    LET err == cancelChallengeByConsentRevert(challengeId, signatures)
        c == challengeId + 1
    IN  /\ lastOp' = "cancelChallengeByConsent"
        /\ lastId' = challengeId
        /\ result' = err
        /\ ret' = NoRet
        /\ IF err = OK
           THEN /\ challenges' = [challenges EXCEPT ![c].state = CANCELLED]
                /\ hist' = [hist EXCEPT ![c].cancelEvents = @ + 1]
                /\ UNCHANGED <<participants, allowedParticipantsList, oracle, balance>>
           ELSE UNCHANGED storage
        /\ UNCHANGED <<now, service, revisions>>

(***************************************************************************)
(* withdrawFromCancelled(challengeId)                                      *)
(***************************************************************************)
\* a withdrawal that looks at the stored state instead of the effective one
withdrawFromCancelledRevert_StoredState(sender, challengeId) ==
    IF ~Exists(challengeId) THEN "Challenge does not exist"
    ELSE IF Chal(challengeId).state # CANCELLED THEN "Challenge not cancelled"
    ELSE IF ~(Part(challengeId, sender).stake > 0) THEN "No stake to withdraw"
    ELSE IF Part(challengeId, sender).stake > Chal(challengeId).totalStaked
         THEN "Panic(0x11)"
    ELSE IF balance < Part(challengeId, sender).stake THEN "Transfer failed"
    ELSE OK

withdrawFromCancelledRevert(sender, challengeId) ==
    IF ~Exists(challengeId) THEN "Challenge does not exist"
    ELSE IF getEffectiveState(challengeId) # CANCELLED THEN "Challenge not cancelled"
    ELSE IF ~(Part(challengeId, sender).stake > 0) THEN "No stake to withdraw"
    ELSE IF Part(challengeId, sender).stake > Chal(challengeId).totalStaked
         THEN "Panic(0x11)"
    ELSE IF balance < Part(challengeId, sender).stake THEN "Transfer failed"
    ELSE OK

\* a withdrawal that leaves the caller's stake recorded
withdrawFromCancelled_KeepStake(sender, challengeId) ==
    LET err == withdrawFromCancelledRevert(sender, challengeId)
        c == challengeId + 1
        amount == Part(challengeId, sender).stake
        first == Chal(challengeId).state # CANCELLED
    IN  /\ lastOp' = "withdrawFromCancelled"
        /\ lastId' = challengeId
        /\ result' = err
        /\ ret' = NoRet
        /\ IF err = OK
           THEN /\ challenges' = [challenges EXCEPT
                      ![c].state = CANCELLED,
                      ![c].totalStaked = @ - amount]
                /\ balance' = balance - amount
                /\ hist' = [hist EXCEPT
                      ![c].cancelEvents = IF first THEN @ + 1 ELSE @,
                      ![c].refunded[sender] = @ + amount,
                      ![c].refunds[sender] = @ + 1]
                /\ UNCHANGED <<participants, allowedParticipantsList, oracle>>
           ELSE UNCHANGED storage
        /\ UNCHANGED <<now, service, revisions>>

\* a withdrawal that emits ChallengeCancelled every time
withdrawFromCancelled_AlwaysEmits(sender, challengeId) ==
    LET err == withdrawFromCancelledRevert(sender, challengeId)
        c == challengeId + 1
        amount == Part(challengeId, sender).stake
    IN  /\ lastOp' = "withdrawFromCancelled"
        /\ lastId' = challengeId
        /\ result' = err
        /\ ret' = NoRet
        /\ IF err = OK
           THEN /\ challenges' = [challenges EXCEPT
                      ![c].state = CANCELLED,
                      ![c].totalStaked = @ - amount]
                /\ participants' = [participants EXCEPT ![c][sender].stake = 0]
                /\ balance' = balance - amount
                /\ hist' = [hist EXCEPT
                      ![c].cancelEvents = @ + 1,
                      ![c].refunded[sender] = @ + amount,
                      ![c].refunds[sender] = @ + 1]
                /\ UNCHANGED <<allowedParticipantsList, oracle>>
           ELSE UNCHANGED storage
        /\ UNCHANGED <<now, service, revisions>>

\* a withdrawal that also removes the participant from the challenge
withdrawFromCancelled_Leaves(sender, challengeId) ==
    LET err == withdrawFromCancelledRevert(sender, challengeId)
        c == challengeId + 1
        amount == Part(challengeId, sender).stake
        first == Chal(challengeId).state # CANCELLED
    IN  /\ lastOp' = "withdrawFromCancelled"
        /\ lastId' = challengeId
        /\ result' = err
        /\ ret' = NoRet
        /\ IF err = OK
           THEN /\ challenges' = [challenges EXCEPT
                      ![c].state = CANCELLED,
                      ![c].totalStaked = @ - amount,
                      ![c].participantCount = @ - 1]
                /\ participants' = [participants EXCEPT ![c][sender].stake = 0,
                                                        ![c][sender].hasJoined = FALSE]
                /\ balance' = balance - amount
                /\ hist' = [hist EXCEPT
                      ![c].cancelEvents = IF first THEN @ + 1 ELSE @,
                      ![c].refunded[sender] = @ + amount,
                      ![c].refunds[sender] = @ + 1]
                /\ UNCHANGED <<allowedParticipantsList, oracle>>
           ELSE UNCHANGED storage
        /\ UNCHANGED <<now, service, revisions>>

withdrawFromCancelled(sender, challengeId) ==
    LET err == withdrawFromCancelledRevert(sender, challengeId)
        c == challengeId + 1
        amount == Part(challengeId, sender).stake
        first == Chal(challengeId).state # CANCELLED
    IN  /\ lastOp' = "withdrawFromCancelled"
        /\ lastId' = challengeId
        /\ result' = err
        /\ ret' = NoRet
        /\ IF err = OK
           THEN /\ challenges' = [challenges EXCEPT
                      ![c].state = CANCELLED,
                      ![c].totalStaked = @ - amount]
                /\ participants' = [participants EXCEPT ![c][sender].stake = 0]
                /\ balance' = balance - amount
                /\ hist' = [hist EXCEPT
                      ![c].cancelEvents = IF first THEN @ + 1 ELSE @,
                      ![c].refunded[sender] = @ + amount,
                      ![c].refunds[sender] = @ + 1]
                /\ UNCHANGED <<allowedParticipantsList, oracle>>
           ELSE UNCHANGED storage
        /\ UNCHANGED <<now, service, revisions>>

(***************************************************************************)
(* emergencyWithdraw(challengeId)                                          *)
(***************************************************************************)
\* the emergency window opening one instant late
emergencyWithdrawRevert_Late(sender, challengeId) ==
    IF ~Exists(challengeId) THEN "Challenge does not exist"
    ELSE IF getEffectiveState(challengeId) \in {FINALIZED, COMPLETED, CANCELLED}
         THEN "Challenge already resolved"
    ELSE IF ~(now > Chal(challengeId).endTime + EMERGENCY_PERIOD)
         THEN "Emergency period not reached"
    ELSE IF ~(Part(challengeId, sender).stake > 0) THEN "No stake to withdraw"
    ELSE IF Part(challengeId, sender).stake > Chal(challengeId).totalStaked
         THEN "Panic(0x11)"
    ELSE IF balance < Part(challengeId, sender).stake THEN "Transfer failed"
    ELSE OK

\* an emergency window that opens with the end of the 7-day grace period
emergencyWithdrawRevert_AtGraceEnd(sender, challengeId) ==
    IF ~Exists(challengeId) THEN "Challenge does not exist"
    ELSE IF getEffectiveState(challengeId) \in {FINALIZED, COMPLETED, CANCELLED}
         THEN "Challenge already resolved"
    ELSE IF ~(now >= Chal(challengeId).endTime + GRACE_PERIOD)
         THEN "Emergency period not reached"
    ELSE IF ~(Part(challengeId, sender).stake > 0) THEN "No stake to withdraw"
    ELSE IF Part(challengeId, sender).stake > Chal(challengeId).totalStaked
         THEN "Panic(0x11)"
    ELSE IF balance < Part(challengeId, sender).stake THEN "Transfer failed"
    ELSE OK

emergencyWithdrawRevert(sender, challengeId) ==
    IF ~Exists(challengeId) THEN "Challenge does not exist"
    ELSE IF getEffectiveState(challengeId) \in {FINALIZED, COMPLETED, CANCELLED}
         THEN "Challenge already resolved"
    ELSE IF ~(now >= Chal(challengeId).endTime + EMERGENCY_PERIOD)
         THEN "Emergency period not reached"
    ELSE IF ~(Part(challengeId, sender).stake > 0) THEN "No stake to withdraw"
    ELSE IF Part(challengeId, sender).stake > Chal(challengeId).totalStaked
         THEN "Panic(0x11)"
    ELSE IF balance < Part(challengeId, sender).stake THEN "Transfer failed"
    ELSE OK

emergencyWithdraw(sender, challengeId) ==
    LET err == emergencyWithdrawRevert(sender, challengeId)
        c == challengeId + 1
        amount == Part(challengeId, sender).stake
    IN  /\ lastOp' = "emergencyWithdraw"
        /\ lastId' = challengeId
        /\ result' = err
        /\ ret' = NoRet
        /\ IF err = OK
           THEN /\ challenges' = [challenges EXCEPT ![c].totalStaked = @ - amount]
                /\ participants' = [participants EXCEPT ![c][sender].stake = 0]
                /\ balance' = balance - amount
                /\ hist' = [hist EXCEPT
                      ![c].refunded[sender] = @ + amount,
                      ![c].refunds[sender] = @ + 1]
                /\ UNCHANGED <<allowedParticipantsList, oracle>>
           ELSE UNCHANGED storage
        /\ UNCHANGED <<now, service, revisions>>

(***************************************************************************)
(* updateOracle(newOracle) onlyOracle                                      *)
(***************************************************************************)
\* an update without the onlyOracle modifier
updateOracleRevert_AnyCaller(sender, newOracle) ==
    IF newOracle = ZERO THEN "Invalid oracle address"
    ELSE OK

updateOracleRevert(sender, newOracle) ==
    IF sender # oracle THEN "Only oracle can call"
    ELSE IF newOracle = ZERO THEN "Invalid oracle address"
    ELSE OK

updateOracle(sender, newOracle) ==
    LET err == updateOracleRevert(sender, newOracle)
    IN  /\ lastOp' = "updateOracle"
        /\ lastId' = NoId
        /\ result' = err
        /\ ret' = NoRet
        /\ IF err = OK
           THEN /\ oracle' = newOracle
                /\ UNCHANGED <<challenges, participants, allowedParticipantsList,
                               balance, hist>>
           ELSE UNCHANGED storage
        /\ UNCHANGED <<now, service, revisions>>

(***************************************************************************)
(* The calls the environment makes.  Arguments are drawn from small sets   *)
(* built around the well-formed call, each varying one argument at a time. *)
(***************************************************************************)
CallIds == 0 .. (IF Len(challenges) < MaxChallenges THEN Len(challenges)
                 ELSE MaxChallenges - 1)

Creators == {"A", "B"}
StartTimes == {DeployTime, DeployTime + TickStep}
EndTimes == {DeployTime + TickStep, DeployTime + 2 * TickStep}
StakeAmounts == {0, 10}
SentValues == {5, 10}
StravaIds == {"", "s"}
AllowedLists == UNION {[1 .. n -> Users \cup {ZERO}] : n \in 0 .. 2}

(* Signing timestamps: too old, aged, current, in the future. *)
Timestamps == {now - 5 * TickStep, now - TickStep, now, now + TickStep}

ClaimCall(sender, winner, dataHash, timestamp, signature) ==
    [sender |-> sender, winner |-> winner, dataHash |-> dataHash,
     timestamp |-> timestamp, signature |-> signature]

ClaimCalls(challengeId) ==
    \* attestations signed by the deployed oracle key for the caller
    {ClaimCall(w, w, "h1", t, Sign("O", finalizeMessage(challengeId, w, "h1", t))) :
        w \in Users, t \in Timestamps}
    \* signed by the other oracle key, or by the caller
    \cup {ClaimCall(w, w, "h1", now, Sign("O2", finalizeMessage(challengeId, w, "h1", now))) :
        w \in Users}
    \cup {ClaimCall(w, w, "h1", now, Sign(w, finalizeMessage(challengeId, w, "h1", now))) :
        w \in Users}
    \* submitted by somebody else than the winner named
    \cup {ClaimCall(v, w, "h1", now, Sign("O", finalizeMessage(challengeId, w, "h1", now))) :
        v \in Users, w \in Users}
    \* the zero hash, properly signed
    \cup {ClaimCall(w, w, ZeroHash, now,
                    Sign("O", finalizeMessage(challengeId, w, ZeroHash, now))) :
        w \in Users}
    \* an oracle signature over another message
    \cup UNION {{ClaimCall(w, w, "h1", now, Sign("O", m)) :
                    m \in {finalizeMessage(challengeId + 1, w, "h1", now),
                           finalizeMessage(challengeId, IF w = "A" THEN "B" ELSE "A",
                                           "h1", now),
                           finalizeMessage(challengeId, w, "h2", now),
                           finalizeMessage(challengeId, w, "h1", now - TickStep),
                           cancelMessage(challengeId),
                           confirmMessage(challengeId)}} : w \in Users}
    \* the caller's own signature over the cancel or the confirmation message
    \cup UNION {{ClaimCall(w, w, "h1", now, Sign(w, m)) :
                    m \in {cancelMessage(challengeId), confirmMessage(challengeId)}} :
                 w \in Users}

(* Lists of signers: every subset once, some reordered, some with a signer *)
(* twice.                                                                  *)
SignerLists ==
    {<<>>, <<"A">>, <<"B">>, <<"C">>,
     <<"A", "B">>, <<"B", "A">>, <<"A", "C">>, <<"B", "C">>,
     <<"A", "B", "C">>, <<"C", "A", "B">>,
     <<"A", "A">>, <<"B", "B">>, <<"A", "B", "A">>, <<"B", "C", "C">>}

CancelCalls(challengeId) ==
    \* lists of participants' signatures over the cancel message
    {[i \in 1 .. Len(l) |-> Sign(l[i], cancelMessage(challengeId))] : l \in SignerLists}
    \* signatures of the oracle, and over other messages
    \cup {<<Sign("O", cancelMessage(challengeId))>>,
          <<Sign("A", cancelMessage(challengeId + 1))>>,
          <<Sign("A", finalizeMessage(challengeId, "A", "h1", now))>>,
          <<Sign("A", cancelMessage(challengeId)), Sign("O", cancelMessage(challengeId))>>}
    \* signatures made for the claim or for the off-chain confirmation
    \cup {<<Sign("O", finalizeMessage(challengeId, "A", "h1", now))>>,
          <<Sign("A", confirmMessage(challengeId))>>,
          <<Sign("A", cancelMessage(challengeId)), Sign("B", confirmMessage(challengeId))>>,
          <<Sign("A", cancelMessage(challengeId)), Sign("B", cancelMessage(challengeId)),
            Sign("C", confirmMessage(challengeId))>>,
          <<Sign("A", cancelMessage(challengeId)), Sign("B", cancelMessage(challengeId)),
            Sign("O", finalizeMessage(challengeId, "C", "h1", now))>>}

(* Callers and arguments of updateOracle: the oracle keys and an ordinary   *)
(* account; an oracle key or the null address.                             *)
UpdateSenders == OracleKeys \cup {"A"}
NewOracles == OracleKeys \cup {ZERO}

Next ==
    \/ Tick
    \/ /\ Len(challenges) < MaxChallenges
       /\ \E sender \in Creators, startTime \in StartTimes, endTime \in EndTimes,
             stakeAmount \in StakeAmounts, allowedAddresses \in AllowedLists :
             createChallenge(sender, startTime, endTime, stakeAmount, allowedAddresses)
    \/ \E challengeId \in CallIds : getEffectiveStateCall(challengeId)
    \/ \E sender \in Users, challengeId \in CallIds, stravaUserId \in StravaIds,
          value \in SentValues :
          joinChallenge(sender, challengeId, stravaUserId, value)
    \/ \E challengeId \in CallIds : \E call \in ClaimCalls(challengeId) :
          claimPrizeWithSignature(call.sender, challengeId, call.winner, call.dataHash,
                                  call.timestamp, call.signature)
    \/ \E sender \in Users, challengeId \in CallIds : claimPrize(sender, challengeId)
    \/ \E challengeId \in CallIds : \E signatures \in CancelCalls(challengeId) :
          cancelChallengeByConsent(challengeId, signatures)
    \/ \E sender \in Users, challengeId \in CallIds :
          withdrawFromCancelled(sender, challengeId)
    \/ \E sender \in Users, challengeId \in CallIds :
          emergencyWithdraw(sender, challengeId)
    \/ \E sender \in UpdateSenders, newOracle \in NewOracles :
          updateOracle(sender, newOracle)

Spec == Init /\ [][Next]_vars

(* The chain keeps producing blocks: time keeps advancing. *)
SpecFair == Spec /\ WF_vars(Tick)

(***************************************************************************)
(* getEffectiveState as a function of its inputs: one challenge record     *)
(* with any stored state, participant count and whitelist size, read at    *)
(* every time.                                                             *)
(***************************************************************************)
EffWhitelists == {<<"A", "B">>, <<"A", "B", "C">>}
EffEndTimes == {DeployTime + 2 * TickStep, DeployTime + 3 * TickStep}

InitEff ==
    \E storedState \in ChallengeState, whitelist \in EffWhitelists,
       endTime \in EffEndTimes, n \in 0 .. Cardinality(Users) :
        /\ n <= Len(whitelist)
        /\ challenges = <<[id |-> 0,
                           creator |-> whitelist[1],
                           startTime |-> DeployTime + TickStep,
                           endTime |-> endTime,
                           stakeAmount |-> 10,
                           totalStaked |-> n * 10,
                           state |-> storedState,
                           winner |-> ZERO,
                           finalDataHash |-> ZeroHash,
                           participantCount |-> n]>>
        /\ allowedParticipantsList = <<whitelist>>
        /\ participants =
               <<[a \in Addresses |->
                    IF \E i \in 1 .. n : whitelist[i] = a
                    THEN [userAddress |-> a, stravaUserId |-> "s", stake |-> 10,
                          hasJoined |-> TRUE]
                    ELSE EmptyParticipant]>>
        /\ oracle = "O"
        /\ now = DeployTime
        /\ balance = n * 10
        /\ hist = <<[EmptyHist EXCEPT
                       !.deposited = n * 10,
                       !.joins = [a \in Users |->
                                    IF \E i \in 1 .. n : whitelist[i] = a THEN 1 ELSE 0]]>>
        /\ lastOp = "constructor"
        /\ lastId = NoId
        /\ result = OK
        /\ ret = NoRet
        /\ db_challenges = {}
        /\ db_participants = {}
        /\ mileage_snapshots = <<>>
        /\ wall = DeployTime
        /\ deployment = Development
        /\ Started
        /\ lazy = EmptyLedger
        /\ explicit = EmptyLedger

NextEff ==
    \/ Tick
    \/ \E challengeId \in CallIds : getEffectiveStateCall(challengeId)

SpecEff == InitEff /\ [][NextEff]_vars

(***************************************************************************)
(* The oracle service.  It keeps a mirror of the ledger in its database    *)
(* (tables challenges and participants, filled by syncChallenge), the      *)
(* mileage snapshots, and the confirmed flag of every mirrored             *)
(* participant.  The service has a clock of its own, `wall` (Date.now()),  *)
(* beside the chain's clock `now`, which it reads through                  *)
(* getBlockchainTime.  Its handlers are asynchronous: a handler gives way  *)
(* to the others at every await, so each is one step per database query or *)
(* chain read it waits for, and what it holds between two steps is kept in *)
(* its run (syncs, sweep) or request (confirmation, setting,               *)
(* finalization).  A handler of the service answers its caller and leaves  *)
(* the record of the last ledger call alone.                               *)
(***************************************************************************)
GRACE_PERIOD_DAYS == 7
MaxSnapshots == 3
Miles == {5, 9}

obs == <<lastOp, lastId, result, ret>>
(* What no handler of the service writes. *)
ledger == <<storage, revisions, now, obs>>
configuration == <<wall, deployment>>

(* The service's clock: the wall clock of the machine it runs on.          *)
MaxWallTicks == 4

WallTick ==
    /\ wall + TickStep <= DeployTime + MaxWallTicks * TickStep
    /\ wall' = wall + TickStep
    /\ UNCHANGED <<ledger, deployment, db_challenges, db_participants, mileage_snapshots,
                   sweep, finalization, syncs, confirmation, setting>>

(***************************************************************************)
(* The deployment: the environment of the process and the columns of table *)
(* participants.  The migrations create the table without the columns      *)
(* confirmation_signature and confirmed_at that POST /participants/confirm *)
(* writes; CREATE TABLE IF NOT EXISTS keeps a table that is there already, *)
(* with whatever columns it has.                                           *)
(***************************************************************************)
isDev == deployment.NODE_ENV = "development"
USE_MOCK == deployment.MOCK_STRAVA = "true"

(***************************************************************************)
(* Addresses as text.  The ledger hands out an address in its checksummed  *)
(* spelling, which is how the model writes an address ("A"); the service   *)
(* stores the lowercase spelling ("a").  A text that is neither spelling   *)
(* of an address is no address.                                            *)
(***************************************************************************)
toLowerCase(text) ==
    CASE text = "A" -> "a"
      [] text = "B" -> "b"
      [] text = "C" -> "c"
      [] text = "O" -> "o"
      [] text = "O2" -> "o2"
      [] OTHER -> text

getAddress(text) ==
    CASE text = "a" -> "A"
      [] text = "b" -> "B"
      [] text = "c" -> "C"
      [] text = "o" -> "O"
      [] text = "o2" -> "O2"
      [] OTHER -> text

isAddress(text) == getAddress(text) \in Addresses

(* getParticipants(challengeId): the whitelisted addresses that have       *)
(* joined, in whitelist order.                                             *)
getParticipants(challengeId) ==
    SelectSeq(Allowed(challengeId), LAMBDA a : Part(challengeId, a).hasJoined)

ChallengeRows(challengeId) == {ch \in db_challenges : ch.id = challengeId}

ParticipantRows(challengeId) ==
    {p \in db_participants : p.challenge_id = challengeId}

(* WHERE challenge_id = $1 AND wallet_address = $2: the text as it is.      *)
ParticipantRow(challengeId, walletAddress) ==
    {p \in ParticipantRows(challengeId) : p.wallet_address = walletAddress}

(***************************************************************************)
(* The mirror.  syncChallenge(challengeId) reads the challenge from the    *)
(* ledger, upserts its row, reads getParticipants, and then for one        *)
(* address after the other reads the participant and upserts its row; it   *)
(* waits for every read and every write, and an error on the way is logged *)
(* and leaves the rows written so far.  It is called for every event of    *)
(* the ledger, by syncExistingData for every challenge when the service    *)
(* starts, and POST /dev/sync-from-chain runs the same reads and upserts   *)
(* in a loop of its own.  A run holds the challenge it is at, the number   *)
(* of challenges its caller counted, what it has read and not written yet, *)
(* and the addresses still to do.                                          *)
(***************************************************************************)
(* The values of the INSERT INTO challenges for the challenge as read.     *)
ChallengeRow(challengeId) ==
    [id |-> challengeId,
     start_time |-> Chal(challengeId).startTime,
     end_time |-> Chal(challengeId).endTime]

(* INSERT INTO participants ... ON CONFLICT DO UPDATE: the upsert writes   *)
(* the lowercase address and does not touch the confirmed flag.            *)
upsertParticipant(challengeId, address, participantData) ==
    LET wallet == toLowerCase(address)
        row == ParticipantRow(challengeId, wallet)
    IN  IF row = {}
        THEN db_participants \cup
                {[challenge_id |-> challengeId, wallet_address |-> wallet,
                  strava_user_id |-> participantData.stravaUserId, confirmed |-> FALSE]}
        ELSE (db_participants \ row) \cup
                {[p EXCEPT !.strava_user_id = participantData.stravaUserId] : p \in row}

(* The run once it is through with a challenge: the caller's loop goes on  *)
(* to the next challenge it counted, or the run is over.                   *)
nextChallenge(run) ==
    IF run.challengeId + 1 < run.upto
    THEN [IdleSync EXCEPT !.pc = "challenge", !.caller = run.caller,
                          !.challengeId = run.challengeId + 1, !.upto = run.upto]
    ELSE IdleSync

(* An event of the ledger for challengeId: the listener calls              *)
(* syncChallenge, whose read of the challenge has answered.  The read of a *)
(* challenge that does not exist reverts, which is logged.                 *)
syncChallenge(s, challengeId) ==
    /\ syncs[s].pc = "idle"
    /\ syncs' =
          IF Exists(challengeId)
          THEN [syncs EXCEPT ![s] =
                   [IdleSync EXCEPT !.pc = "insert", !.caller = "event",
                                    !.challengeId = challengeId,
                                    !.upto = challengeId + 1,
                                    !.challengeData = ChallengeRow(challengeId)]]
          ELSE syncs
    /\ UNCHANGED <<ledger, configuration, db_challenges, db_participants,
                   mileage_snapshots, sweep, finalization, confirmation, setting>>

(* syncExistingData(): getChallengeCount, then syncChallenge(i) for every  *)
(* i below the count.                                                      *)
syncExistingData(s) ==
    /\ syncs[s].pc = "idle"
    /\ syncs' =
          IF Len(challenges) = 0 THEN syncs
          ELSE [syncs EXCEPT ![s] =
                   [IdleSync EXCEPT !.pc = "challenge", !.caller = "startup",
                                    !.challengeId = 0, !.upto = Len(challenges)]]
    /\ UNCHANGED <<ledger, configuration, db_challenges, db_participants,
                   mileage_snapshots, sweep, finalization, confirmation, setting>>

(* POST /dev/sync-from-chain: 404 Not found outside development; else      *)
(* getChallengeCount and the loop over the challenges.                     *)
syncFromChainRevert == IF ~isDev THEN "Not found" ELSE OK

syncFromChain(s) ==
    /\ syncs[s].pc = "idle"
    /\ syncs' =
          IF syncFromChainRevert # OK \/ Len(challenges) = 0 THEN syncs
          ELSE [syncs EXCEPT ![s] =
                   [IdleSync EXCEPT !.pc = "challenge", !.caller = "dev",
                                    !.challengeId = 0, !.upto = Len(challenges)]]
    /\ UNCHANGED <<ledger, configuration, db_challenges, db_participants,
                   mileage_snapshots, sweep, finalization, confirmation, setting>>

(* The loop's next challenge: contract.challenges(i) has answered.         *)
syncChallengeRead(s) ==
    LET run == syncs[s]
    IN  /\ run.pc = "challenge"
        /\ syncs' = [syncs EXCEPT ![s] =
                        [run EXCEPT !.pc = "insert",
                                    !.challengeData = ChallengeRow(run.challengeId)]]
        /\ UNCHANGED <<ledger, configuration, db_challenges, db_participants,
                       mileage_snapshots, sweep, finalization, confirmation, setting>>

(* INSERT INTO challenges ... ON CONFLICT (id) DO UPDATE, with the values  *)
(* read.                                                                   *)
syncChallengeRow(s) ==
    LET run == syncs[s]
    IN  /\ run.pc = "insert"
        /\ db_challenges' = db_challenges \cup {run.challengeData}
        /\ syncs' = [syncs EXCEPT ![s] =
                        [run EXCEPT !.pc = "participants", !.challengeData = NoRow]]
        /\ UNCHANGED <<ledger, configuration, db_participants, mileage_snapshots, sweep,
                       finalization, confirmation, setting>>

(* contract.getParticipants(challengeId) *)
syncParticipants(s) ==
    LET run == syncs[s]
        participantAddresses == getParticipants(run.challengeId)
    IN  /\ run.pc = "participants"
        /\ syncs' = [syncs EXCEPT ![s] =
                        IF participantAddresses = <<>> THEN nextChallenge(run)
                        ELSE [run EXCEPT !.pc = "participant",
                                         !.addresses = participantAddresses]]
        /\ UNCHANGED <<ledger, configuration, db_challenges, db_participants,
                       mileage_snapshots, sweep, finalization, confirmation, setting>>

(* contract.getParticipant(challengeId, address) for the next address      *)
syncParticipantRead(s) ==
    LET run == syncs[s]
    IN  /\ run.pc = "participant"
        /\ syncs' = [syncs EXCEPT ![s] =
                        [run EXCEPT !.pc = "upsert",
                                    !.participantData =
                                        Part(run.challengeId, Head(run.addresses))]]
        /\ UNCHANGED <<ledger, configuration, db_challenges, db_participants,
                       mileage_snapshots, sweep, finalization, confirmation, setting>>

(* The upsert of the participant read.                                     *)
syncParticipant(s) ==
    LET run == syncs[s]
        rest == Tail(run.addresses)
    IN  /\ run.pc = "upsert"
        /\ db_participants' =
              upsertParticipant(run.challengeId, Head(run.addresses), run.participantData)
        /\ syncs' = [syncs EXCEPT ![s] =
                        IF rest = <<>> THEN nextChallenge(run)
                        ELSE [run EXCEPT !.pc = "participant", !.addresses = rest,
                                         !.participantData = EmptyParticipant]]
        /\ UNCHANGED <<ledger, configuration, db_challenges, mileage_snapshots, sweep,
                       finalization, confirmation, setting>>

(* A chain read or a query of the run throws.  syncChallenge logs the      *)
(* error and returns, so the loop of syncExistingData goes on with the     *)
(* next challenge; POST /dev/sync-from-chain answers 500 and stops.  The   *)
(* rows written so far stay.                                               *)
syncFails(s) ==
    LET run == syncs[s]
    IN  /\ run.pc # "idle"
        /\ syncs' = [syncs EXCEPT ![s] =
                        IF run.caller = "dev" THEN IdleSync ELSE nextChallenge(run)]
        /\ UNCHANGED <<ledger, configuration, db_challenges, db_participants,
                       mileage_snapshots, sweep, finalization, confirmation, setting>>

(***************************************************************************)
(* POST /participants/confirm.  The body carries challengeId (NoId when it *)
(* is missing), walletAddress as text and the signature.  The request      *)
(* checks its body and then waits, one after the other, for the query of   *)
(* the challenge, the chain's clock, the query of the participant, the     *)
(* UPDATE, and the query of the confirmation statistics it answers with.   *)
(* A request that is refused is answered 400 or 404 with the refusal and   *)
(* has written nothing.                                                    *)
(***************************************************************************)
(* Signatures that are no signature: a text that does not start with 0x,   *)
(* and a hex text that is not the 65 bytes of a signature.                 *)
NoHexSignature == [signer |-> ZERO, msg |-> <<"1234">>]
MalformedSignature == [signer |-> ZERO, msg |-> <<"0x1234">>]

(* The checks of the body and the challenge query.                         *)
confirmRevert(challengeId, walletAddress, signature) ==
    IF challengeId = NoId THEN "challengeId is required"
    ELSE IF ~isAddress(walletAddress) THEN "Invalid wallet address"
    ELSE IF signature = NoHexSignature THEN "Invalid signature"
    ELSE IF ChallengeRows(challengeId) = {} THEN "Challenge not found"
    ELSE OK

(* The request arrives and its challenge query has answered.               *)
confirm(c, challengeId, walletAddress, signature) ==
    /\ confirmation[c].pc = "idle"
    /\ confirmation' =
          IF confirmRevert(challengeId, walletAddress, signature) = OK
          THEN [confirmation EXCEPT ![c] =
                   [pc |-> "clock", challengeId |-> challengeId,
                    walletAddress |-> walletAddress, signature |-> signature,
                    end_time |-> (CHOOSE ch \in ChallengeRows(challengeId) : TRUE).end_time]]
          ELSE confirmation
    /\ UNCHANGED <<ledger, configuration, db_challenges, db_participants,
                   mileage_snapshots, sweep, finalization, syncs, setting>>

(* getBlockchainTime() has answered: the end check.                        *)
confirmClockRevert(end_time) ==
    IF now < end_time THEN "Challenge has not ended yet" ELSE OK

confirmClock(c) ==
    LET req == confirmation[c]
    IN  /\ req.pc = "clock"
        /\ confirmation' = [confirmation EXCEPT ![c] =
                               IF confirmClockRevert(req.end_time) = OK
                               THEN [req EXCEPT !.pc = "participant"]
                               ELSE IdleConfirm]
        /\ UNCHANGED <<ledger, configuration, db_challenges, db_participants,
                       mileage_snapshots, sweep, finalization, syncs, setting>>

(* The participant query has answered: the row, its flag, the signature.   *)
\* a confirm that accepts a signature over the confirmation message by anybody
confirmParticipantRevert_AnySigner(challengeId, walletAddress, signature) ==
    IF ParticipantRow(challengeId, walletAddress) = {}
    THEN "Participant not found for this challenge"
    ELSE IF \E p \in ParticipantRow(challengeId, walletAddress) : p.confirmed
         THEN "Already confirmed"
    ELSE IF signature = MalformedSignature THEN "Invalid signature format"
    ELSE IF recover(confirmMessage(challengeId), signature) \notin Users
         THEN "Signature does not match wallet address"
    ELSE OK

confirmParticipantRevert(challengeId, walletAddress, signature) ==
    IF ParticipantRow(challengeId, walletAddress) = {}
    THEN "Participant not found for this challenge"
    ELSE IF \E p \in ParticipantRow(challengeId, walletAddress) : p.confirmed
         THEN "Already confirmed"
    ELSE IF signature = MalformedSignature THEN "Invalid signature format"
    ELSE IF toLowerCase(recover(confirmMessage(challengeId), signature))
                # toLowerCase(walletAddress)
         THEN "Signature does not match wallet address"
    ELSE OK

confirmParticipant(c) ==
    LET req == confirmation[c]
    IN  /\ req.pc = "participant"
        /\ confirmation' = [confirmation EXCEPT ![c] =
              IF confirmParticipantRevert(req.challengeId, req.walletAddress,
                                          req.signature) = OK
              THEN [req EXCEPT !.pc = "update"]
              ELSE IdleConfirm]
        /\ UNCHANGED <<ledger, configuration, db_challenges, db_participants,
                       mileage_snapshots, sweep, finalization, syncs, setting>>

(* UPDATE participants SET confirmed = TRUE, confirmation_signature = $3,  *)
(* confirmed_at = CURRENT_TIMESTAMP WHERE challenge_id = $1 AND            *)
(* wallet_address = $2.  On a table without the two columns the statement  *)
(* is an error, the request is answered 500 and no flag is written.        *)
\* an UPDATE that finds the two columns in every table
confirmUpdateRevert_ColumnsThere == OK

confirmUpdateRevert ==
    IF ~(ConfirmationColumns \subseteq deployment.participants)
    THEN "column \"confirmation_signature\" of relation \"participants\" does not exist"
    ELSE OK

confirmUpdate(c) ==
    LET req == confirmation[c]
        row == ParticipantRow(req.challengeId, req.walletAddress)
    IN  /\ req.pc = "update"
        /\ IF confirmUpdateRevert = OK
           THEN /\ db_participants' =
                      (db_participants \ row) \cup {[p EXCEPT !.confirmed = TRUE] : p \in row}
                /\ confirmation' = [confirmation EXCEPT ![c] =
                                       [IdleConfirm EXCEPT !.pc = "stats",
                                                           !.challengeId = req.challengeId]]
           ELSE /\ db_participants' = db_participants
                /\ confirmation' = [confirmation EXCEPT ![c] = IdleConfirm]
        /\ UNCHANGED <<ledger, configuration, db_challenges, mileage_snapshots, sweep,
                       finalization, syncs, setting>>

(* The count of the rows of the challenge and of those confirmed: the     *)
(* body of the 200 response.                                               *)
confirmationStats(challengeId) ==
    LET rows == ParticipantRows(challengeId)
        total == Cardinality(rows)
        confirmed == Cardinality({p \in rows : p.confirmed})
    IN  [total |-> total, confirmed |-> confirmed,
         allParticipantsConfirmed |-> total = confirmed]

confirmStats(c) ==
    /\ confirmation[c].pc = "stats"
    /\ confirmation' = [confirmation EXCEPT ![c] = IdleConfirm]
    /\ UNCHANGED <<ledger, configuration, db_challenges, db_participants,
                   mileage_snapshots, sweep, finalization, syncs, setting>>

(* A query or the chain read of the request throws: it is answered 500     *)
(* and writes nothing more.                                                *)
confirmFails(c) ==
    /\ confirmation[c].pc # "idle"
    /\ confirmation' = [confirmation EXCEPT ![c] = IdleConfirm]
    /\ UNCHANGED <<ledger, configuration, db_challenges, db_participants,
                   mileage_snapshots, sweep, finalization, syncs, setting>>

(***************************************************************************)
(* Writers of mileage snapshots.  Both append a row; the row's id is its   *)
(* position.  total_miles is the stored NUMERIC(10,2) figure, counted in   *)
(* hundredths of a mile.                                                   *)
(***************************************************************************)
Snapshot(challengeId, walletAddress, stravaUserId, miles) ==
    [challenge_id |-> challengeId, wallet_address |-> walletAddress,
     strava_user_id |-> stravaUserId, total_miles |-> miles]

(* The mock of the Strava client: the figure of the latest snapshot of the *)
(* wallet, of whatever challenge, or 0 when it has none.                   *)
mockFetchParticipantMileage(walletAddress) ==
    LET ids == {i \in DOMAIN mileage_snapshots :
                   mileage_snapshots[i].wallet_address = walletAddress}
    IN  IF ids = {} THEN 0
        ELSE mileage_snapshots[CHOOSE i \in ids : \A j \in ids : j <= i].total_miles

(***************************************************************************)
(* The mileage sweep.  syncActiveChallenges, the hourly job, takes the     *)
(* challenges with start_time <= now < end_time by the service's clock and *)
(* calls syncChallengeParticipants for one after the other;                *)
(* syncChallengeParticipants(challengeId), which is exported and called    *)
(* for any challenge, queries the challenge, selects the participants that *)
(* have connected Strava (tokens), and then for one after the other        *)
(* fetches the mileage and inserts a snapshot.  A run holds the challenges *)
(* still to do, the participants selected and not stored yet, and the      *)
(* participant and figure fetched last.                                    *)
(***************************************************************************)
RECURSIVE SortedIds(_)
SortedIds(ids) ==
    IF ids = {} THEN <<>>
    ELSE LET least == CHOOSE i \in ids : \A j \in ids : i <= j
         IN  <<least>> \o SortedIds(ids \ {least})

(* The run once it is through with a challenge. *)
nextSweep(run) ==
    IF Len(run.challenges) > 1
    THEN [IdleSweep EXCEPT !.pc = "challenge", !.challenges = Tail(run.challenges)]
    ELSE IdleSweep

(* The run once it is through with a participant. *)
nextParticipant(run, rest) ==
    IF rest = {} THEN nextSweep(run)
    ELSE [run EXCEPT !.pc = "fetch", !.participants = rest,
                     !.participant = NoParticipant, !.miles = 0]

(* The job is called: it reads the service's clock and sends the query    *)
(* for the active challenges.                                              *)
syncActiveChallenges(w) ==
    /\ sweep[w].pc = "idle"
    /\ sweep' = [sweep EXCEPT ![w] = [IdleSweep EXCEPT !.pc = "active", !.now = wall]]
    /\ UNCHANGED <<ledger, configuration, db_challenges, db_participants,
                   mileage_snapshots, finalization, syncs, confirmation, setting>>

(* SELECT id ... FROM challenges WHERE start_time <= $1 AND end_time > $1  *)
(* answers, for the clock as the job read it and the table as it is now.   *)
sweepActive(w) ==
    LET run == sweep[w]
        active == {ch.id : ch \in {row \in db_challenges :
                                      row.start_time <= run.now /\ row.end_time > run.now}}
    IN  /\ run.pc = "active"
        /\ sweep' = [sweep EXCEPT ![w] =
                        IF active = {} THEN IdleSweep
                        ELSE [IdleSweep EXCEPT !.pc = "challenge",
                                               !.challenges = SortedIds(active)]]
        /\ UNCHANGED <<ledger, configuration, db_challenges, db_participants,
                       mileage_snapshots, finalization, syncs, confirmation, setting>>

syncChallengeParticipants(w, challengeId) ==
    /\ sweep[w].pc = "idle"
    /\ sweep' = [sweep EXCEPT ![w] =
                    [IdleSweep EXCEPT !.pc = "challenge", !.challenges = <<challengeId>>]]
    /\ UNCHANGED <<ledger, configuration, db_challenges, db_participants,
                   mileage_snapshots, finalization, syncs, confirmation, setting>>

(* SELECT * FROM challenges WHERE id = $1; a challenge that is not there   *)
(* is an error the caller logs.                                            *)
sweepChallenge(w) ==
    LET run == sweep[w]
    IN  /\ run.pc = "challenge"
        /\ sweep' = [sweep EXCEPT ![w] =
                        IF ChallengeRows(Head(run.challenges)) = {} THEN nextSweep(run)
                        ELSE [run EXCEPT !.pc = "select"]]
        /\ UNCHANGED <<ledger, configuration, db_challenges, db_participants,
                       mileage_snapshots, finalization, syncs, confirmation, setting>>

(* SELECT ... FROM participants p JOIN strava_tokens st ... WHERE          *)
(* p.challenge_id = $1 AND p.strava_user_id IS NOT NULL; tokens are the    *)
(* wallets of table strava_tokens.  The rows come in no stated order.      *)
sweepSelect(w, tokens) ==
    LET run == sweep[w]
        rows == {p \in ParticipantRows(Head(run.challenges)) :
                    p.wallet_address \in tokens}
        selected == {[challenge_id |-> p.challenge_id,
                      wallet_address |-> p.wallet_address,
                      strava_user_id |-> p.strava_user_id] : p \in rows}
    IN  /\ run.pc = "select"
        /\ sweep' = [sweep EXCEPT ![w] = nextParticipant(run, selected)]
        /\ UNCHANGED <<ledger, configuration, db_challenges, db_participants,
                       mileage_snapshots, finalization, syncs, confirmation, setting>>

(* fetchParticipantMileage: with MOCK_STRAVA the figure of the wallet's    *)
(* latest snapshot; else the figure Strava reports (miles).                *)
sweepFetch(w, participant, miles) ==
    LET run == sweep[w]
    IN  /\ run.pc = "fetch"
        /\ participant \in run.participants
        /\ sweep' = [sweep EXCEPT ![w] =
                        [run EXCEPT !.pc = "insert",
                                    !.participant = participant,
                                    !.miles = IF USE_MOCK
                                              THEN mockFetchParticipantMileage(
                                                       participant.wallet_address)
                                              ELSE miles]]
        /\ UNCHANGED <<ledger, configuration, db_challenges, db_participants,
                       mileage_snapshots, finalization, syncs, confirmation, setting>>

(* INSERT INTO mileage_snapshots *)
sweepInsert(w) ==
    LET run == sweep[w]
    IN  /\ run.pc = "insert"
        /\ Len(mileage_snapshots) < MaxSnapshots
        /\ mileage_snapshots' =
              Append(mileage_snapshots,
                     Snapshot(run.participant.challenge_id, run.participant.wallet_address,
                              run.participant.strava_user_id, run.miles))
        /\ sweep' = [sweep EXCEPT ![w] =
                        nextParticipant(run, run.participants \ {run.participant})]
        /\ UNCHANGED <<ledger, configuration, db_challenges, db_participants, finalization,
                       syncs, confirmation, setting>>

(* The fetch or the insert of a participant throws (Strava is down, the    *)
(* token is refused): the error is counted and the loop goes on with the   *)
(* next participant; a query of the run that throws ends its work on the   *)
(* challenge.                                                              *)
sweepFails(w, participant) ==
    LET run == sweep[w]
    IN  /\ run.pc # "idle"
        /\ CASE run.pc = "fetch" -> participant \in run.participants
             [] run.pc = "insert" -> participant = run.participant
             [] OTHER -> participant = NoParticipant
        /\ sweep' = [sweep EXCEPT ![w] =
                        IF run.pc \in {"fetch", "insert"}
                        THEN nextParticipant(run, run.participants \ {participant})
                        ELSE nextSweep(run)]
        /\ UNCHANGED <<ledger, configuration, db_challenges, db_participants,
                       mileage_snapshots, finalization, syncs, confirmation, setting>>

(***************************************************************************)
(* POST /dev/set-mileage.  The body carries challengeId (NoId when it is   *)
(* missing), walletAddress as text and miles (NaN when it is no number).   *)
(* The request checks the deployment and its body and selects the          *)
(* participant by the lowercase address; then it waits for the UPDATE of   *)
(* a generated Strava id when the participant has none, and then for the   *)
(* INSERT of the snapshot.                                                 *)
(***************************************************************************)
(* generateMockStravaId: a number made of the first digits of a digest of  *)
(* the lowercase address.                                                  *)
getMockStravaId(walletAddress) == "sha256(" \o toLowerCase(walletAddress) \o ")"

(* WHERE challenge_id = $1 AND LOWER(wallet_address) = $2 *)
ParticipantRowLower(challengeId, normalizedAddress) ==
    {p \in ParticipantRows(challengeId) : toLowerCase(p.wallet_address) = normalizedAddress}

setMileageRevert(challengeId, walletAddress, miles) ==
    IF ~isDev THEN "Not found"
    ELSE IF ~USE_MOCK THEN "This endpoint only works when MOCK_STRAVA=true"
    ELSE IF challengeId = NoId THEN "challengeId is required"
    ELSE IF ~isAddress(walletAddress) THEN "Invalid wallet address"
    ELSE IF miles = NaN THEN "miles must be a number"
    ELSE IF ParticipantRowLower(challengeId, toLowerCase(walletAddress)) = {}
         THEN "Participant not found for this challenge"
    ELSE OK

setMileage(m, challengeId, walletAddress, miles) ==
    LET normalizedAddress == toLowerCase(walletAddress)
        rows == ParticipantRowLower(challengeId, normalizedAddress)
        stored == (CHOOSE p \in rows : TRUE).strava_user_id
    IN  /\ setting[m].pc = "idle"
        /\ setting' =
              IF setMileageRevert(challengeId, walletAddress, miles) # OK THEN setting
              ELSE [setting EXCEPT ![m] =
                       [pc |-> IF stored = "" THEN "update" ELSE "insert",
                        challengeId |-> challengeId,
                        normalizedAddress |-> normalizedAddress,
                        stravaUserId |-> IF stored = "" THEN getMockStravaId(walletAddress)
                                         ELSE stored,
                        miles |-> miles]]
        /\ UNCHANGED <<ledger, configuration, db_challenges, db_participants,
                       mileage_snapshots, sweep, finalization, syncs, confirmation>>

(* The next write of the request: UPDATE participants SET strava_user_id   *)
(* = $1 WHERE challenge_id = $2 AND LOWER(wallet_address) = $3, when the   *)
(* participant had no Strava id; then INSERT INTO mileage_snapshots.       *)
setMileageWrite(m) ==
    LET req == setting[m]
        rows == ParticipantRowLower(req.challengeId, req.normalizedAddress)
    IN  /\ req.pc \in {"update", "insert"}
        /\ IF req.pc = "update"
           THEN /\ db_participants' =
                      (db_participants \ rows) \cup
                          {[p EXCEPT !.strava_user_id = req.stravaUserId] : p \in rows}
                /\ mileage_snapshots' = mileage_snapshots
                /\ setting' = [setting EXCEPT ![m] = [req EXCEPT !.pc = "insert"]]
           ELSE /\ Len(mileage_snapshots) < MaxSnapshots
                /\ db_participants' = db_participants
                /\ mileage_snapshots' =
                      Append(mileage_snapshots,
                             Snapshot(req.challengeId, req.normalizedAddress,
                                      req.stravaUserId, req.miles))
                /\ setting' = [setting EXCEPT ![m] = IdleSetting]
        /\ UNCHANGED <<ledger, configuration, db_challenges, sweep, finalization, syncs,
                       confirmation>>

(* The statement the request waits for throws: the request is answered     *)
(* 500 and is over.  What it has written stays: after a failed INSERT the  *)
(* generated Strava id is stored and no snapshot is.                       *)
setMileageFails(m) ==
    /\ setting[m].pc \in {"update", "insert"}
    /\ setting' = [setting EXCEPT ![m] = IdleSetting]
    /\ UNCHANGED <<ledger, configuration, db_challenges, db_participants,
                   mileage_snapshots, sweep, finalization, syncs, confirmation>>

(***************************************************************************)
(* GET /oracle/challenge/:id/finalization.  The handler reads the          *)
(* database three times and then waits for the signature, and other        *)
(* requests run between these awaits, so it is four steps per request:     *)
(* finStart (the id, the challenge row, the service's clock, the end       *)
(* check), finParticipants (participant rows, decision), finMileage        *)
(* (latest snapshots, winner, results, hash, timestamp by the service's    *)
(* clock) and finSign (signature, answer).  Requests are numbered in the   *)
(* order they arrive.                                                      *)
(***************************************************************************)
InFlight == {"participants", "mileage", "sign"}

Refusal(status, error) == [NoResponse EXCEPT !.status = status, !.error = error]

(* A request that has answered: its locals are gone, its response stays,   *)
(* and so does the record of what it had read.                             *)
Answered(req, response) ==
    [IdleRequest EXCEPT !.pc = "done", !.challengeId = req.challengeId,
                        !.decidedAt = req.now, !.overlapped = req.overlapped,
                        !.readJoin = req.readJoin,
                        !.readSnapshots = req.readSnapshots,
                        !.response = response]

(***************************************************************************)
(* parseInt(req.params.id).  The text is the sequence of its UTF-16 code   *)
(* units ("0" is <<48>>).  parseInt skips leading white space and line     *)
(* terminators, takes a sign, takes the radix 16 after a prefix 0x or 0X   *)
(* and 10 otherwise, and reads the digits of the radix up to the first     *)
(* character that is none; without a digit the result is NaN.  The number  *)
(* read is kept as its sign and its magnitude up to INT4_MAX, with         *)
(* `beyond` 1 for the magnitude INT4_MAX + 1 and 2 for a larger one:       *)
(* column id of table challenges is an INTEGER, and a query for a number   *)
(* outside its range is an error.                                          *)
(***************************************************************************)
INT4_MAX == 2147483647

(* TAB, LF, VT, FF, CR, SP, NBSP, U+1680, U+2000 to U+200A, LS, PS,        *)
(* U+202F, U+205F, U+3000 and the byte order mark.                         *)
StrWhiteSpaceChar ==
    {9, 10, 11, 12, 13, 32, 160, 5760, 8232, 8233, 8239, 8287, 12288, 65279}
        \cup (8192 .. 8202)

digitValue(ch) ==
    IF ch \in 48 .. 57 THEN ch - 48
    ELSE IF ch \in 97 .. 122 THEN ch - 87
    ELSE IF ch \in 65 .. 90 THEN ch - 55
    ELSE 36

RECURSIVE trimStart(_)
trimStart(text) ==
    IF text # <<>> /\ Head(text) \in StrWhiteSpaceChar THEN trimStart(Tail(text))
    ELSE text

(* The digits of the radix at the head of the text, read on to acc. *)
RECURSIVE readDigits(_, _, _)
readDigits(text, radix, acc) ==
    IF text = <<>> \/ digitValue(Head(text)) >= radix THEN acc
    ELSE LET d == digitValue(Head(text))
             q == INT4_MAX \div radix
             rest == INT4_MAX % radix
             fits == /\ acc.beyond = 0
                     /\ (acc.value < q \/ (acc.value = q /\ d <= rest))
             next == /\ acc.beyond = 0
                     /\ \/ acc.value = q /\ d = rest + 1
                        \/ acc.value = q + 1 /\ d = 0 /\ rest = radix - 1
         IN  readDigits(Tail(text), radix,
                 IF fits
                 THEN [acc EXCEPT !.isNaN = FALSE, !.value = acc.value * radix + d]
                 ELSE [acc EXCEPT !.isNaN = FALSE, !.value = INT4_MAX,
                                  !.beyond = IF next THEN 1 ELSE 2])

parseInt(text) ==
    LET trimmed == trimStart(text)
        signed == trimmed # <<>> /\ Head(trimmed) \in {43, 45}
        negative == trimmed # <<>> /\ Head(trimmed) = 45
        unsigned == IF signed THEN Tail(trimmed) ELSE trimmed
        hex == /\ Len(unsigned) >= 2
               /\ unsigned[1] = 48
               /\ unsigned[2] \in {88, 120}
        digits == IF hex THEN Tail(Tail(unsigned)) ELSE unsigned
    IN  readDigits(digits, IF hex THEN 16 ELSE 10,
                   [isNaN |-> TRUE, negative |-> negative, value |-> 0, beyond |-> 0])

(* The number as a parameter of a query on an INTEGER column.              *)
isInteger(n) == n.beyond = 0 \/ (n.beyond = 1 /\ n.negative)

toInteger(n) ==
    IF n.beyond = 1 THEN 0 - INT4_MAX - 1
    ELSE IF n.negative THEN 0 - n.value
    ELSE n.value

(* The request arrives: the id is parsed, the challenge query answers (or  *)
(* throws, for a number that is no INTEGER), the service's clock is read   *)
(* and the end of the challenge is checked.                                *)
finStart(r, id) ==
    LET req == finalization[r]
        challengeId == toInteger(parseInt(id))
        rows == ChallengeRows(challengeId)
        challenge == CHOOSE ch \in rows : TRUE
        others == {q \in Requests \ {r} : /\ finalization[q].pc \in InFlight
                                          /\ finalization[q].challengeId = challengeId}
        started == [req EXCEPT !.challengeId = challengeId, !.now = wall]
    IN  /\ req.pc = "idle"
        /\ \A q \in Requests : q < r => finalization[q].pc # "idle"
        /\ IF parseInt(id).isNaN
           THEN finalization' = [finalization EXCEPT ![r] =
                    Answered(req, Refusal(400, "Invalid challenge ID"))]
           ELSE IF ~isInteger(parseInt(id))
           THEN finalization' = [finalization EXCEPT ![r] =
                    Answered(req, Refusal(500, "error"))]
           ELSE IF rows = {}
           THEN finalization' = [finalization EXCEPT ![r] =
                    Answered(started, Refusal(404, "Challenge not found"))]
           ELSE IF wall < challenge.end_time
           THEN finalization' = [finalization EXCEPT ![r] =
                    Answered(started,
                        [Refusal(400, "Challenge has not ended") EXCEPT
                            !.has = {"endTime", "currentTime", "timeRemaining"},
                            !.timeRemaining = challenge.end_time - wall])]
           ELSE finalization' =
                    [q \in Requests |->
                        IF q = r
                        THEN [started EXCEPT !.pc = "participants",
                                             !.end_time = challenge.end_time,
                                             !.overlapped = others]
                        ELSE IF q \in others
                        THEN [finalization[q] EXCEPT !.overlapped = @ \cup {r}]
                        ELSE finalization[q]]
        /\ UNCHANGED <<ledger, configuration, db_challenges, db_participants,
                       mileage_snapshots, sweep, syncs, confirmation, setting>>

(* The request arrives and its challenge query throws: it is answered 500  *)
(* before it has read the clock.                                           *)
finStartFails(r, id) ==
    LET req == finalization[r]
    IN  /\ req.pc = "idle"
        /\ \A q \in Requests : q < r => finalization[q].pc # "idle"
        /\ ~parseInt(id).isNaN
        /\ finalization' = [finalization EXCEPT ![r] =
              Answered(IF isInteger(parseInt(id))
                       THEN [req EXCEPT !.challengeId = toInteger(parseInt(id))]
                       ELSE req,
                       Refusal(500, "error"))]
        /\ UNCHANGED <<ledger, configuration, db_challenges, db_participants,
                       mileage_snapshots, sweep, syncs, confirmation, setting>>

gracePeriodSeconds == GRACE_PERIOD_DAYS * 24 * 60 * 60

\* a decision that lets the grace period expire only after its last second
canFinalize_StrictGrace(timeSinceEnd, allConfirmed) ==
    timeSinceEnd > gracePeriodSeconds \/ allConfirmed

canFinalize(timeSinceEnd, allConfirmed) ==
    LET gracePeriodExpired == timeSinceEnd >= gracePeriodSeconds
    IN  gracePeriodExpired \/ allConfirmed

finParticipants(r) ==
    LET req == finalization[r]
        rows == ParticipantRows(req.challengeId)
        timeSinceEnd == req.now - req.end_time
        totalParticipants == Cardinality(rows)
        confirmedParticipants == Cardinality({p \in rows : p.confirmed})
        allConfirmed == confirmedParticipants = totalParticipants
    IN  /\ req.pc = "participants"
        /\ IF rows = {}
           THEN finalization' = [finalization EXCEPT ![r] =
                    Answered(req, Refusal(400, "No participants found for this challenge"))]
           ELSE IF ~canFinalize(timeSinceEnd, allConfirmed)
           THEN finalization' = [finalization EXCEPT ![r] =
                    Answered(req,
                        [Refusal(400, "Cannot finalize yet") EXCEPT
                            !.has = {"gracePeriodExpired", "allConfirmed",
                                     "confirmedCount", "totalParticipants",
                                     "timeSinceEnd", "gracePeriodSeconds",
                                     "timeUntilCanFinalize"},
                            !.confirmedCount = confirmedParticipants,
                            !.totalParticipants = totalParticipants,
                            !.timeUntilCanFinalize = gracePeriodSeconds - timeSinceEnd])]
           ELSE finalization' = [finalization EXCEPT ![r] =
                    [req EXCEPT !.pc = "mileage",
                                !.allConfirmed = allConfirmed,
                                !.confirmedCount = confirmedParticipants,
                                !.totalParticipants = totalParticipants]]
        /\ UNCHANGED <<ledger, configuration, db_challenges, db_participants,
                       mileage_snapshots, sweep, syncs, confirmation, setting>>

(* The ids of the latest snapshot of every wallet of the challenge:        *)
(* SELECT MAX(id) ... WHERE challenge_id = $1 GROUP BY wallet_address.     *)
\* the earliest snapshot of every wallet instead of the latest
LatestIds_Earliest(snapshots, challengeId) ==
    {i \in DOMAIN snapshots :
        /\ snapshots[i].challenge_id = challengeId
        /\ ~\E j \in DOMAIN snapshots :
              /\ j < i
              /\ snapshots[j].challenge_id = challengeId
              /\ snapshots[j].wallet_address = snapshots[i].wallet_address}

LatestIds(snapshots, challengeId) ==
    {i \in DOMAIN snapshots :
        /\ snapshots[i].challenge_id = challengeId
        /\ ~\E j \in DOMAIN snapshots :
              /\ j > i
              /\ snapshots[j].challenge_id = challengeId
              /\ snapshots[j].wallet_address = snapshots[i].wallet_address}

(* The joined rows m JOIN p of the mileage query.                          *)
MileageRows(snapshots, rows, challengeId) ==
    {[wallet_address |-> snapshots[ip[1]].wallet_address,
      strava_user_id |-> snapshots[ip[1]].strava_user_id,
      total_miles |-> snapshots[ip[1]].total_miles,
      confirmed |-> ip[2].confirmed] :
        ip \in {jq \in LatestIds(snapshots, challengeId) \X rows :
                  /\ snapshots[jq[1]].challenge_id = jq[2].challenge_id
                  /\ snapshots[jq[1]].wallet_address = jq[2].wallet_address}}

(* ORDER BY m.total_miles DESC: every order of the rows that is            *)
(* descending in total_miles; rows of equal mileage come in any order.     *)
OrderByMilesDesc(rows) ==
    {s \in [1 .. Cardinality(rows) -> rows] :
        /\ \A i, j \in DOMAIN s : i # j => s[i] # s[j]
        /\ \A i, j \in DOMAIN s : i < j => s[i].total_miles >= s[j].total_miles}

mileageResult(snapshots, rows, challengeId) ==
    OrderByMilesDesc(MileageRows(snapshots, rows, challengeId))

resultsData(rows) ==
    [i \in DOMAIN rows |->
        [address |-> rows[i].wallet_address,
         stravaUserId |-> rows[i].strava_user_id,
         miles |-> rows[i].total_miles,
         confirmed |-> rows[i].confirmed]]

keccak256(data) == "keccak256(" \o ToString(data) \o ")"

(* The mileage query answers; the winner is its first row.  The handler    *)
(* computes the results and their hash, reads the timestamp from the       *)
(* service's clock and calls signFinalization.                             *)
finMileage(r) ==
    LET req == finalization[r]
        orders == mileageResult(mileage_snapshots, ParticipantRows(req.challengeId),
                                req.challengeId)
    IN  /\ req.pc = "mileage"
        /\ \E rows \in orders :
              finalization' = [finalization EXCEPT ![r] =
                  IF rows = <<>>
                  THEN Answered(req, Refusal(400, "No mileage data found for participants"))
                  ELSE [req EXCEPT !.pc = "sign",
                                   !.mileage = rows,
                                   !.timestamp = wall,
                                   !.readJoin = ParticipantRows(req.challengeId),
                                   !.readSnapshots = mileage_snapshots]]
        /\ UNCHANGED <<ledger, configuration, db_challenges, db_participants,
                       mileage_snapshots, sweep, syncs, confirmation, setting>>

(* getOracleWallet throws when ORACLE_PRIVATE_KEY is not set or all zero.  *)
getOracleWalletRevert ==
    IF deployment.ORACLE_PRIVATE_KEY \in {NoPrivateKey, ZeroHash}
    THEN "ORACLE_PRIVATE_KEY not configured. Please set a valid private key in .env"
    ELSE OK

(* The signature over the packed (challengeId, winner, dataHash,           *)
(* timestamp); the winner is packed as an address, whatever its spelling.  *)
signFinalization(challengeId, winnerAddress, dataHash, timestamp) ==
    Sign(deployment.ORACLE_PRIVATE_KEY,
         finalizeMessage(challengeId, getAddress(winnerAddress), dataHash, timestamp))

(* signFinalization answers and the handler answers its caller.  A         *)
(* handler that cannot sign answers 500.                                   *)
finSign(r) ==
    LET req == finalization[r]
        winner == req.mileage[1]
        results == resultsData(req.mileage)
        dataHash == keccak256(results)
        timestamp == req.timestamp
        signature == signFinalization(req.challengeId, winner.wallet_address,
                                      dataHash, timestamp)
    IN  /\ req.pc = "sign"
        /\ finalization' = [finalization EXCEPT ![r] =
              IF getOracleWalletRevert # OK
              THEN Answered(req, Refusal(500, getOracleWalletRevert))
              ELSE Answered(req,
                      [NoResponse EXCEPT
                          !.status = 200,
                          !.has = {"challengeId", "winner", "participants",
                                   "finalizationReason", "confirmedCount",
                                   "totalParticipants", "dataHash",
                                   "timestamp", "signature"},
                          !.winner = winner.wallet_address,
                          !.results = results,
                          !.finalizationReason =
                              IF req.allConfirmed THEN "all_confirmed"
                              ELSE "grace_period_expired",
                          !.confirmedCount = req.confirmedCount,
                          !.totalParticipants = req.totalParticipants,
                          !.dataHash = dataHash,
                          !.timestamp = timestamp,
                          !.signature = signature])]
        /\ UNCHANGED <<ledger, configuration, db_challenges, db_participants,
                       mileage_snapshots, sweep, syncs, confirmation, setting>>

(* A later query of the handler or the signing throws: the request is     *)
(* answered 500.                                                           *)
finFails(r) ==
    LET req == finalization[r]
    IN  /\ req.pc \in InFlight
        /\ finalization' = [finalization EXCEPT ![r] =
                               Answered(req, Refusal(500, "error"))]
        /\ UNCHANGED <<ledger, configuration, db_challenges, db_participants,
                       mileage_snapshots, sweep, syncs, confirmation, setting>>

(***************************************************************************)
(* The service beside the ledger.  The challenge is the one the README     *)
(* walks through: created by A for A, B and C, joined by all three, and    *)
(* now at its start time.                                                  *)
(***************************************************************************)
OracleStart == DeployTime + TickStep
OracleEnd == DeployTime + 2 * TickStep
OracleStake == 10

JoinedParticipant(a) ==
    [userAddress |-> a, stravaUserId |-> "s", stake |-> OracleStake, hasJoined |-> TRUE]

(* The rows of the mirror for the first k joined participants.             *)
Mirror(challengeId, k) ==
    {[challenge_id |-> challengeId, wallet_address |-> toLowerCase(a),
      strava_user_id |-> Part(challengeId, a).stravaUserId, confirmed |-> FALSE] :
        a \in {getParticipants(challengeId)[i] : i \in 1 .. k}}

InitLedger ==
    /\ challenges = <<[id |-> 0,
                       creator |-> "A",
                       startTime |-> OracleStart,
                       endTime |-> OracleEnd,
                       stakeAmount |-> OracleStake,
                       totalStaked |-> 3 * OracleStake,
                       state |-> PENDING,
                       winner |-> ZERO,
                       finalDataHash |-> ZeroHash,
                       participantCount |-> 3]>>
    /\ participants = <<[a \in Addresses |->
                            IF a \in Users THEN JoinedParticipant(a)
                            ELSE EmptyParticipant]>>
    /\ allowedParticipantsList = <<<<"A", "B", "C">>>>
    /\ oracle = "O"
    /\ balance = 3 * OracleStake
    /\ hist = <<[EmptyHist EXCEPT !.deposited = 3 * OracleStake,
                                  !.joins = [a \in Users |-> 1]]>>
    /\ lastOp = "tick"
    /\ lastId = NoId
    /\ result = OK
    /\ ret = NoRet
    /\ lazy = EmptyLedger
    /\ explicit = EmptyLedger

(***************************************************************************)
(* The mirror and the confirmations.  The service starts with empty        *)
(* tables; the mirror is filled by the events of the ledger, at start and  *)
(* on request, while participants confirm, two requests at a time: one    *)
(* with any body, and a second of a participant with its own signature.    *)
(* The ledger's clock runs up to the end of the challenge, from where on   *)
(* the endpoint lets confirm.                                              *)
(***************************************************************************)
ConfirmDeployments == {Development, WithConfirmationColumns(Production)}
SyncIds == 0 .. MaxChallenges
ConfirmIds == {NoId, 0, 1}
ConfirmWallets == {"A", "a", "zz"}
ConfirmAgain == {"a", "b"}
ConfirmSignatures(challengeId) ==
    {Sign(k, confirmMessage(challengeId)) : k \in {"A", "B"}}
        \cup {Sign("A", cancelMessage(challengeId)), NoHexSignature, MalformedSignature}

InitConfirm ==
    /\ InitLedger
    /\ now = OracleStart
    /\ wall = OracleStart
    /\ deployment \in ConfirmDeployments
    /\ db_challenges = {}
    /\ db_participants = {}
    /\ mileage_snapshots = <<>>
    /\ Started

NextConfirm ==
    \/ now < OracleEnd /\ Tick
    \/ \E id \in SyncIds : syncChallenge(2, id)
    \/ syncExistingData(1)
    \/ syncFromChain(1)
    \/ \E s \in SyncRuns : syncChallengeRead(s)
    \/ \E s \in SyncRuns : syncChallengeRow(s)
    \/ \E s \in SyncRuns : syncParticipants(s)
    \/ \E s \in SyncRuns : syncParticipantRead(s)
    \/ \E s \in SyncRuns : syncParticipant(s)
    \/ \E s \in SyncRuns : syncFails(s)
    \/ \E id \in ConfirmIds, a \in ConfirmWallets :
          \E sig \in ConfirmSignatures(0) : confirm(1, id, a, sig)
    \/ \E a \in ConfirmAgain : confirm(2, 0, a, Sign(getAddress(a), confirmMessage(0)))
    \/ \E c \in ConfirmRequests : confirmClock(c)
    \/ \E c \in ConfirmRequests : confirmParticipant(c)
    \/ \E c \in ConfirmRequests : confirmUpdate(c)
    \/ \E c \in ConfirmRequests : confirmStats(c)
    \/ \E c \in ConfirmRequests : confirmFails(c)

SpecConfirm == InitConfirm /\ [][NextConfirm]_vars

(***************************************************************************)
(* Finalization beside the mirror.  A sync of the challenge has written    *)
(* the row of A and stopped there, and A's mileage has been set; from      *)
(* there on the sync is run again, participants confirm, the two clocks    *)
(* advance and finalization is requested.  Table participants is as the    *)
(* migrations create it, so the UPDATE of a confirm request fails.  The    *)
(* ledger's clock runs up to the end of the challenge, the service's clock *)
(* beyond the grace period.                                                *)
(***************************************************************************)
OracleWallets == {"a", "b", "c"}
(* The ids "0", "2", "0a", "abc", "\r0", "-1" and "2147483648". *)
ParamIds ==
    {<<48>>, <<50>>, <<48, 97>>, <<97, 98, 99>>, <<13, 48>>, <<45, 49>>,
     <<50, 49, 52, 55, 52, 56, 51, 54, 52, 56>>}

InitOracle ==
    /\ InitLedger
    /\ now = OracleStart
    /\ wall = OracleStart
    /\ deployment = Development
    /\ db_challenges = {ChallengeRow(0)}
    /\ db_participants = Mirror(0, 1)
    /\ mileage_snapshots = <<Snapshot(0, "a", "s", 5)>>
    /\ Started

NextOracle ==
    \/ now < OracleEnd /\ Tick
    \/ WallTick
    \/ syncChallenge(1, 0)
    \/ syncChallengeRow(1)
    \/ syncParticipants(1)
    \/ syncParticipantRead(1)
    \/ syncParticipant(1)
    \/ syncFails(1)
    \/ \E a \in OracleWallets : confirm(1, 0, a, Sign(getAddress(a), confirmMessage(0)))
    \/ confirmClock(1)
    \/ confirmParticipant(1)
    \/ confirmUpdate(1)
    \/ confirmFails(1)
    \/ \E id \in ParamIds : finStart(1, id)
    \/ \E id \in ParamIds : finStartFails(1, id)
    \/ finParticipants(1)
    \/ finMileage(1)
    \/ finSign(1)
    \/ finFails(1)

SpecOracle == InitOracle /\ [][NextOracle]_vars

(***************************************************************************)
(* The mileage side: the mirror is complete, the sweep and the manual      *)
(* refresh write snapshots, and one finalization request is served.  With  *)
(* MOCK_STRAVA the manual refresh sets the figures and the sweep copies    *)
(* them; without it the sweep stores what Strava reports.                  *)
(***************************************************************************)
MileageDeployments == {Development, [Development EXCEPT !.MOCK_STRAVA = "false"]}
MileageWrites == {<<"A", 9>>, <<"A", 5>>, <<"B", 9>>}
TokenSets == {{"a"}, {"a", "b"}}

InitMileage ==
    /\ InitLedger
    /\ now = OracleStart
    /\ wall = OracleStart
    /\ deployment \in MileageDeployments
    /\ db_challenges = {ChallengeRow(0)}
    /\ db_participants = Mirror(0, 3)
    /\ mileage_snapshots = <<>>
    /\ Started

NextMileage ==
    \/ WallTick
    \/ syncActiveChallenges(1)
    \/ sweepActive(1)
    \/ syncChallengeParticipants(1, 0)
    \/ sweepChallenge(1)
    \/ \E tokens \in TokenSets : sweepSelect(1, tokens)
    \/ \E p \in sweep[1].participants : \E m \in Miles : sweepFetch(1, p, m)
    \/ sweepInsert(1)
    \/ \E p \in sweep[1].participants \cup {NoParticipant} : sweepFails(1, p)
    \/ \E w \in MileageWrites : setMileage(1, 0, w[1], w[2])
    \/ setMileageWrite(1)
    \/ setMileageFails(1)
    \/ finStart(1, <<48>>)
    \/ finStartFails(1, <<48>>)
    \/ finParticipants(1)
    \/ finMileage(1)
    \/ finSign(1)
    \/ finFails(1)

SpecMileage == InitMileage /\ [][NextMileage]_vars

(***************************************************************************)
(* Two finalization requests for the challenge, seven days after its end,  *)
(* while mileage is still being written and a participant tries to        *)
(* confirm, on the tables as the migrations create them.                   *)
(***************************************************************************)
RequestWrites == {<<"A", 5>>, <<"A", 9>>, <<"B", 9>>}

InitRequests ==
    /\ InitLedger
    /\ now = OracleEnd + GRACE_PERIOD
    /\ wall = OracleEnd + GRACE_PERIOD
    /\ deployment = Development
    /\ db_challenges = {ChallengeRow(0)}
    /\ db_participants = Mirror(0, 3)
    /\ mileage_snapshots = <<>>
    /\ Started

NextRequests ==
    \/ \E w \in RequestWrites : setMileage(1, 0, w[1], w[2])
    \/ setMileageWrite(1)
    \/ setMileageFails(1)
    \/ confirm(1, 0, "a", Sign("A", confirmMessage(0)))
    \/ confirmClock(1)
    \/ confirmParticipant(1)
    \/ confirmUpdate(1)
    \/ confirmFails(1)
    \/ \E r \in Requests : finStart(r, <<48>>)
    \/ \E r \in Requests : finStartFails(r, <<48>>)
    \/ \E r \in Requests : finParticipants(r)
    \/ \E r \in Requests : finMileage(r)
    \/ \E r \in Requests : finSign(r)
    \/ \E r \in Requests : finFails(r)

SpecRequests == InitRequests /\ [][NextRequests]_vars

(***************************************************************************)
(* The attestation on its way to the ledger: the mirror is complete, the   *)
(* two clocks advance each at its own pace, mileage is set, finalization   *)
(* is requested, and an account calls claimPrizeWithSignature with the     *)
(* winner, hash, timestamp and signature of an attestation issued.         *)
(***************************************************************************)
ClaimWrites == {<<"A", 5>>, <<"B", 9>>}
ClaimSenders == {"A", "B"}

(* The attestations issued so far: the requests answered with one.        *)
Issued == {r \in Requests : finalization[r].response.status = 200}

InitClaim ==
    /\ InitLedger
    /\ now = OracleStart
    /\ wall = OracleStart
    /\ deployment = Development
    /\ db_challenges = {ChallengeRow(0)}
    /\ db_participants = Mirror(0, 3)
    /\ mileage_snapshots = <<>>
    /\ Started

NextClaim ==
    \/ Tick
    \/ WallTick
    \/ \E w \in ClaimWrites : setMileage(1, 0, w[1], w[2])
    \/ setMileageWrite(1)
    \/ setMileageFails(1)
    \/ finStart(1, <<48>>)
    \/ finStartFails(1, <<48>>)
    \/ finParticipants(1)
    \/ finMileage(1)
    \/ finSign(1)
    \/ finFails(1)
    \/ \E r \in Issued : \E sender \in ClaimSenders :
          claimPrizeWithSignature(sender, finalization[r].challengeId,
                                  getAddress(finalization[r].response.winner),
                                  finalization[r].response.dataHash,
                                  finalization[r].response.timestamp,
                                  finalization[r].response.signature)

SpecClaim == InitClaim /\ [][NextClaim]_vars

(***************************************************************************)
(* The minimum-participants revision of the ledger                         *)
(* (src/contracts/StravaChallenge.sol, first contract).  A challenge is    *)
(* keyed by an identifier the creator chooses, starts when at least        *)
(* minParticipants have joined, and can be finalized by the oracle in a    *)
(* transaction of its own (finalizeChallenge), after which the winner      *)
(* takes the prize with claimPrize.  Its storage is the variable lazy.     *)
(* A call that reverts leaves lazy as it was.                              *)
(***************************************************************************)
lazy_frame == <<storage, service, now, explicit>>

lazy_getEffectiveState(challengeId) ==
    LET challenge == lazy.challenges[challengeId]
    IN  effectiveStateOf(challenge.state, challenge.startTime, challenge.endTime,
                         challenge.participantCount, challenge.minParticipants, now)

lazy_createChallengeRevert(sender, challengeId, startTime, endTime, stakeAmount, minParticipants) ==
    IF lazy.challenges[challengeId].creator # ZERO THEN "Challenge already exists"
    ELSE IF ~(startTime > now) THEN "Start time must be in future"
    ELSE IF ~(endTime > startTime) THEN "End time must be after start"
    ELSE IF ~(stakeAmount > 0) THEN "Stake must be positive"
    ELSE IF ~(minParticipants >= 2) THEN "Need at least 2 participants"
    ELSE OK

(* the Challenge stored by createChallenge, in both revisions *)
NewChallenge(sender, challengeId, startTime, endTime, stakeAmount, minParticipants) ==
    [id |-> challengeId,
     creator |-> sender,
     startTime |-> startTime,
     endTime |-> endTime,
     stakeAmount |-> stakeAmount,
     minParticipants |-> minParticipants,
     totalStaked |-> 0,
     state |-> PENDING,
     winner |-> ZERO,
     finalDataHash |-> ZeroHash,
     participantCount |-> 0]

(* the ledger after the call, reverted or not *)
lazy_afterCreateChallenge(sender, challengeId, startTime, endTime, stakeAmount, minParticipants) ==
    IF lazy_createChallengeRevert(sender, challengeId, startTime, endTime, stakeAmount,
                                  minParticipants) # OK
    THEN lazy
    ELSE [lazy EXCEPT !.challenges[challengeId] =
             NewChallenge(sender, challengeId, startTime, endTime, stakeAmount,
                          minParticipants)]

lazy_createChallenge(sender, challengeId, startTime, endTime, stakeAmount, minParticipants) ==
    /\ lastOp' = "createChallenge"
    /\ lastId' = challengeId
    /\ result' = lazy_createChallengeRevert(sender, challengeId, startTime, endTime,
                                            stakeAmount, minParticipants)
    /\ ret' = NoRet
    /\ lazy' = lazy_afterCreateChallenge(sender, challengeId, startTime, endTime,
                                         stakeAmount, minParticipants)
    /\ UNCHANGED lazy_frame

lazy_joinChallengeRevert(sender, challengeId, stravaUserId, value) ==
    IF lazy.challenges[challengeId].creator = ZERO THEN "Challenge does not exist"
    ELSE IF lazy_getEffectiveState(challengeId) # PENDING
         THEN "Challenge not accepting participants"
    ELSE IF ~(now < lazy.challenges[challengeId].startTime) THEN "Registration closed"
    ELSE IF value # lazy.challenges[challengeId].stakeAmount THEN "Incorrect stake amount"
    ELSE IF lazy.participants[challengeId][sender].hasJoined THEN "Already joined"
    ELSE IF ~(Len(stravaUserId) > 0) THEN "Invalid Strava ID"
    ELSE OK

(* the ledger L after a join that did not revert, in both revisions *)
Joining(L, sender, challengeId, stravaUserId, value) ==
    [L EXCEPT
        !.participants[challengeId][sender] =
            [userAddress |-> sender,
             stravaUserId |-> stravaUserId,
             stake |-> value,
             hasJoined |-> TRUE],
        !.participantList[challengeId] = Append(@, sender),
        !.challenges[challengeId].totalStaked = @ + value,
        !.challenges[challengeId].participantCount = @ + 1,
        !.balance = @ + value]

(* the ledger after the call, reverted or not *)
lazy_afterJoinChallenge(sender, challengeId, stravaUserId, value) ==
    IF lazy_joinChallengeRevert(sender, challengeId, stravaUserId, value) # OK
    THEN lazy
    ELSE Joining(lazy, sender, challengeId, stravaUserId, value)

lazy_joinChallenge(sender, challengeId, stravaUserId, value) ==
    /\ lastOp' = "joinChallenge"
    /\ lastId' = challengeId
    /\ result' = lazy_joinChallengeRevert(sender, challengeId, stravaUserId, value)
    /\ ret' = NoRet
    /\ lazy' = lazy_afterJoinChallenge(sender, challengeId, stravaUserId, value)
    /\ UNCHANGED lazy_frame

(* finalizeChallenge(challengeId, winner, dataHash) onlyOracle *)
lazy_finalizeChallengeRevert(sender, challengeId, winner, dataHash) ==
    IF sender # lazy.oracle THEN "Only oracle can call"
    ELSE IF lazy_getEffectiveState(challengeId) # GRACE THEN "Challenge not in grace period"
    ELSE IF ~(now >= lazy.challenges[challengeId].endTime) THEN "Challenge not ended"
    ELSE IF ~(now < lazy.challenges[challengeId].endTime + EMERGENCY_PERIOD)
         THEN "Emergency period active, cannot finalize"
    ELSE IF ~lazy.participants[challengeId][winner].hasJoined
         THEN "Winner not a participant"
    ELSE IF dataHash = ZeroHash THEN "Invalid data hash"
    ELSE OK

lazy_finalizeChallenge(sender, challengeId, winner, dataHash) ==
    LET err == lazy_finalizeChallengeRevert(sender, challengeId, winner, dataHash)
    IN  /\ lastOp' = "finalizeChallenge"
        /\ lastId' = challengeId
        /\ result' = err
        /\ ret' = NoRet
        /\ lazy' = IF err # OK THEN lazy
                   ELSE [lazy EXCEPT
                            !.challenges[challengeId].state = FINALIZED,
                            !.challenges[challengeId].winner = winner,
                            !.challenges[challengeId].finalDataHash = dataHash]
        /\ UNCHANGED lazy_frame

lazy_claimPrizeWithSignatureRevert(sender, challengeId, winner, dataHash, timestamp, oracleSignature) ==
    IF lazy_getEffectiveState(challengeId) # GRACE THEN "Challenge not in grace period"
    ELSE IF ~(now >= lazy.challenges[challengeId].endTime) THEN "Challenge not ended"
    ELSE IF ~(now < lazy.challenges[challengeId].endTime + EMERGENCY_PERIOD)
         THEN "Emergency period active"
    ELSE IF sender # winner THEN "Caller must be winner"
    ELSE IF ~lazy.participants[challengeId][winner].hasJoined
         THEN "Winner not a participant"
    ELSE IF dataHash = ZeroHash THEN "Invalid data hash"
    ELSE IF ~(timestamp <= now) THEN "Signature from future"
    ELSE IF ~(now - timestamp < SIGNATURE_MAX_AGE) THEN "Signature too old"
    ELSE IF recover(finalizeMessage(challengeId, winner, dataHash, timestamp),
                    oracleSignature) # lazy.oracle
         THEN "Invalid oracle signature"
    ELSE IF lazy.balance < lazy.challenges[challengeId].totalStaked THEN "Transfer failed"
    ELSE OK

lazy_claimPrizeWithSignature(sender, challengeId, winner, dataHash, timestamp, oracleSignature) ==
    LET err == lazy_claimPrizeWithSignatureRevert(sender, challengeId, winner, dataHash,
                                                  timestamp, oracleSignature)
        prize == lazy.challenges[challengeId].totalStaked
    IN  /\ lastOp' = "claimPrizeWithSignature"
        /\ lastId' = challengeId
        /\ result' = err
        /\ ret' = NoRet
        /\ lazy' = IF err # OK THEN lazy
                   ELSE [lazy EXCEPT
                            !.challenges[challengeId].state = COMPLETED,
                            !.challenges[challengeId].winner = winner,
                            !.challenges[challengeId].finalDataHash = dataHash,
                            !.challenges[challengeId].totalStaked = 0,
                            !.balance = @ - prize,
                            !.prizeClaimed[challengeId] = Append(@, <<winner, prize>>)]
        /\ UNCHANGED lazy_frame

(* claimPrize(challengeId) *)
lazy_claimPrizeRevert(sender, challengeId) ==
    IF lazy.challenges[challengeId].state # FINALIZED THEN "Challenge not finalized"
    ELSE IF sender # lazy.challenges[challengeId].winner THEN "Only winner can claim"
    ELSE IF lazy.balance < lazy.challenges[challengeId].totalStaked THEN "Transfer failed"
    ELSE OK

\* a claim that pays and leaves the challenge finalized
lazy_claimPrize_StaysFinalized(sender, challengeId) ==
    LET err == lazy_claimPrizeRevert(sender, challengeId)
        prize == lazy.challenges[challengeId].totalStaked
    IN  /\ lastOp' = "claimPrize"
        /\ lastId' = challengeId
        /\ result' = err
        /\ ret' = NoRet
        /\ lazy' = IF err # OK THEN lazy
                   ELSE [lazy EXCEPT
                            !.challenges[challengeId].totalStaked = 0,
                            !.balance = @ - prize,
                            !.prizeClaimed[challengeId] = Append(@, <<sender, prize>>)]
        /\ UNCHANGED lazy_frame

lazy_claimPrize(sender, challengeId) ==
    LET err == lazy_claimPrizeRevert(sender, challengeId)
        prize == lazy.challenges[challengeId].totalStaked
    IN  /\ lastOp' = "claimPrize"
        /\ lastId' = challengeId
        /\ result' = err
        /\ ret' = NoRet
        /\ lazy' = IF err # OK THEN lazy
                   ELSE [lazy EXCEPT
                            !.challenges[challengeId].state = COMPLETED,
                            !.challenges[challengeId].totalStaked = 0,
                            !.balance = @ - prize,
                            !.prizeClaimed[challengeId] = Append(@, <<sender, prize>>)]
        /\ UNCHANGED lazy_frame

RECURSIVE lazy_signaturesRevert(_, _, _)
lazy_signaturesRevert(challengeId, signatures, i) ==
    IF i > Len(signatures) THEN OK
    ELSE LET signer == recover(cancelMessage(challengeId), signatures[i])
         IN  IF ~lazy.participants[challengeId][signer].hasJoined THEN "Invalid signature"
             ELSE IF \E j \in 1 .. (i - 1) :
                        recover(cancelMessage(challengeId), signatures[j]) = signer
                  THEN "Duplicate signature"
             ELSE lazy_signaturesRevert(challengeId, signatures, i + 1)

lazy_cancelChallengeByConsentRevert(challengeId, signatures) ==
    IF lazy_getEffectiveState(challengeId) \notin {PENDING, ACTIVE, GRACE}
    THEN "Challenge cannot be cancelled"
    ELSE IF Len(signatures) # lazy.challenges[challengeId].participantCount
         THEN "Need all participant signatures"
    ELSE lazy_signaturesRevert(challengeId, signatures, 1)

lazy_cancelChallengeByConsent(challengeId, signatures) ==
    LET err == lazy_cancelChallengeByConsentRevert(challengeId, signatures)
    IN  /\ lastOp' = "cancelChallengeByConsent"
        /\ lastId' = challengeId
        /\ result' = err
        /\ ret' = NoRet
        /\ lazy' = IF err # OK THEN lazy
                   ELSE [lazy EXCEPT !.challenges[challengeId].state = CANCELLED]
        /\ UNCHANGED lazy_frame

lazy_withdrawFromCancelledRevert(sender, challengeId) ==
    IF lazy_getEffectiveState(challengeId) # CANCELLED THEN "Challenge not cancelled"
    ELSE IF ~(lazy.participants[challengeId][sender].stake > 0) THEN "No stake to withdraw"
    ELSE IF lazy.participants[challengeId][sender].stake
              > lazy.challenges[challengeId].totalStaked
         THEN "Panic(0x11)"
    ELSE IF lazy.balance < lazy.participants[challengeId][sender].stake
         THEN "Transfer failed"
    ELSE OK

lazy_withdrawFromCancelled(sender, challengeId) ==
    LET err == lazy_withdrawFromCancelledRevert(sender, challengeId)
        amount == lazy.participants[challengeId][sender].stake
    IN  /\ lastOp' = "withdrawFromCancelled"
        /\ lastId' = challengeId
        /\ result' = err
        /\ ret' = NoRet
        /\ lazy' = IF err # OK THEN lazy
                   ELSE [lazy EXCEPT
                            !.challenges[challengeId].state = CANCELLED,
                            !.participants[challengeId][sender].stake = 0,
                            !.challenges[challengeId].totalStaked = @ - amount,
                            !.balance = @ - amount]
        /\ UNCHANGED lazy_frame

lazy_emergencyWithdrawRevert(sender, challengeId) ==
    IF lazy_getEffectiveState(challengeId) \in {FINALIZED, COMPLETED, CANCELLED}
    THEN "Challenge already resolved"
    ELSE IF ~(now >= lazy.challenges[challengeId].endTime + EMERGENCY_PERIOD)
         THEN "Emergency period not reached"
    ELSE IF ~(lazy.participants[challengeId][sender].stake > 0) THEN "No stake to withdraw"
    ELSE IF lazy.participants[challengeId][sender].stake
              > lazy.challenges[challengeId].totalStaked
         THEN "Panic(0x11)"
    ELSE IF lazy.balance < lazy.participants[challengeId][sender].stake
         THEN "Transfer failed"
    ELSE OK

lazy_emergencyWithdraw(sender, challengeId) ==
    LET err == lazy_emergencyWithdrawRevert(sender, challengeId)
        amount == lazy.participants[challengeId][sender].stake
    IN  /\ lastOp' = "emergencyWithdraw"
        /\ lastId' = challengeId
        /\ result' = err
        /\ ret' = NoRet
        /\ lazy' = IF err # OK THEN lazy
                   ELSE [lazy EXCEPT
                            !.participants[challengeId][sender].stake = 0,
                            !.challenges[challengeId].totalStaked = @ - amount,
                            !.balance = @ - amount]
        /\ UNCHANGED lazy_frame

lazy_updateOracleRevert(sender, newOracle) ==
    IF sender # lazy.oracle THEN "Only oracle can call"
    ELSE IF newOracle = ZERO THEN "Invalid oracle address"
    ELSE OK

lazy_updateOracle(sender, newOracle) ==
    LET err == lazy_updateOracleRevert(sender, newOracle)
    IN  /\ lastOp' = "updateOracle"
        /\ lastId' = NoId
        /\ result' = err
        /\ ret' = NoRet
        /\ lazy' = IF err # OK THEN lazy ELSE [lazy EXCEPT !.oracle = newOracle]
        /\ UNCHANGED lazy_frame

(* The calls made on this ledger: one challenge key, created by A with a   *)
(* minimum of one to three participants; finalizations                     *)
(* sent by the oracle keys and by a participant; claims with an            *)
(* attestation of either oracle key made now; cancellations with the       *)
(* signatures of none, some, all or repeated participants.                 *)
MinParticipants == {1, 2, 3}
Finalizers == OracleKeys \cup {"A"}
FinalizeWinners == Users \cup {Unrelated}

AttestedClaims(challengeId) ==
    {ClaimCall(w, w, "h1", now, Sign(k, finalizeMessage(challengeId, w, "h1", now))) :
        w \in Users, k \in OracleKeys}

ConsentLists(challengeId) ==
    {[i \in 1 .. Len(l) |-> Sign(l[i], cancelMessage(challengeId))] :
        l \in {<<>>, <<"A">>, <<"A", "B">>, <<"B", "A">>, <<"A", "B", "C">>, <<"A", "A">>}}

NextFinalize ==
    \/ Tick
    \/ \E challengeId \in ChallengeKeys, startTime \in StartTimes, endTime \in EndTimes,
          stakeAmount \in StakeAmounts, minParticipants \in MinParticipants :
          lazy_createChallenge("A", challengeId, startTime, endTime, stakeAmount,
                               minParticipants)
    \/ \E sender \in Users, challengeId \in ChallengeKeys, stravaUserId \in StravaIds,
          value \in SentValues :
          lazy_joinChallenge(sender, challengeId, stravaUserId, value)
    \/ \E sender \in Finalizers, challengeId \in ChallengeKeys, winner \in FinalizeWinners,
          dataHash \in DataHashes :
          lazy_finalizeChallenge(sender, challengeId, winner, dataHash)
    \/ \E challengeId \in ChallengeKeys : \E call \in AttestedClaims(challengeId) :
          lazy_claimPrizeWithSignature(call.sender, challengeId, call.winner,
                                       call.dataHash, call.timestamp, call.signature)
    \/ \E sender \in Users, challengeId \in ChallengeKeys :
          lazy_claimPrize(sender, challengeId)
    \/ \E challengeId \in ChallengeKeys : \E signatures \in ConsentLists(challengeId) :
          lazy_cancelChallengeByConsent(challengeId, signatures)
    \/ \E sender \in Users, challengeId \in ChallengeKeys :
          lazy_withdrawFromCancelled(sender, challengeId)
    \/ \E sender \in Users, challengeId \in ChallengeKeys :
          lazy_emergencyWithdraw(sender, challengeId)
    \/ \E sender \in UpdateSenders, newOracle \in NewOracles :
          lazy_updateOracle(sender, newOracle)

SpecFinalize == Init /\ [][NextFinalize]_vars

(***************************************************************************)
(* The explicit-transition revision of the ledger                          *)
(* (src/contracts/StravaChallenge.sol, second contract).  The lifecycle    *)
(* state is the stored one: activateChallenge moves a PENDING challenge to *)
(* ACTIVE or CANCELLED from its start time, endChallenge moves an ACTIVE   *)
(* one to GRACE_PERIOD from its end time; anybody may call them, at any    *)
(* time.  Every other function reads the stored state.  Its storage is the *)
(* variable explicit.  A call that reverts leaves explicit as it was.      *)
(***************************************************************************)
explicit_frame == <<storage, service, now, lazy>>

explicit_createChallengeRevert(sender, challengeId, startTime, endTime, stakeAmount, minParticipants) ==
    IF explicit.challenges[challengeId].creator # ZERO THEN "Challenge already exists"
    ELSE IF ~(startTime > now) THEN "Start time must be in future"
    ELSE IF ~(endTime > startTime) THEN "End time must be after start"
    ELSE IF ~(stakeAmount > 0) THEN "Stake must be positive"
    ELSE IF ~(minParticipants >= 2) THEN "Need at least 2 participants"
    ELSE OK

(* the ledger after the call, reverted or not *)
explicit_afterCreateChallenge(sender, challengeId, startTime, endTime, stakeAmount, minParticipants) ==
    IF explicit_createChallengeRevert(sender, challengeId, startTime, endTime,
                                      stakeAmount, minParticipants) # OK
    THEN explicit
    ELSE [explicit EXCEPT !.challenges[challengeId] =
             NewChallenge(sender, challengeId, startTime, endTime, stakeAmount,
                          minParticipants)]

explicit_createChallenge(sender, challengeId, startTime, endTime, stakeAmount, minParticipants) ==
    /\ lastOp' = "explicit.createChallenge"
    /\ lastId' = challengeId
    /\ result' = explicit_createChallengeRevert(sender, challengeId, startTime, endTime,
                                                stakeAmount, minParticipants)
    /\ ret' = NoRet
    /\ explicit' = explicit_afterCreateChallenge(sender, challengeId, startTime, endTime,
                                                 stakeAmount, minParticipants)
    /\ UNCHANGED explicit_frame

explicit_joinChallengeRevert(sender, challengeId, stravaUserId, value) ==
    IF explicit.challenges[challengeId].creator = ZERO THEN "Challenge does not exist"
    ELSE IF explicit.challenges[challengeId].state # PENDING
         THEN "Challenge not accepting participants"
    ELSE IF ~(now < explicit.challenges[challengeId].startTime) THEN "Registration closed"
    ELSE IF value # explicit.challenges[challengeId].stakeAmount
         THEN "Incorrect stake amount"
    ELSE IF explicit.participants[challengeId][sender].hasJoined THEN "Already joined"
    ELSE IF ~(Len(stravaUserId) > 0) THEN "Invalid Strava ID"
    ELSE OK

(* the ledger after the call, reverted or not *)
explicit_afterJoinChallenge(sender, challengeId, stravaUserId, value) ==
    IF explicit_joinChallengeRevert(sender, challengeId, stravaUserId, value) # OK
    THEN explicit
    ELSE Joining(explicit, sender, challengeId, stravaUserId, value)

explicit_joinChallenge(sender, challengeId, stravaUserId, value) ==
    /\ lastOp' = "explicit.joinChallenge"
    /\ lastId' = challengeId
    /\ result' = explicit_joinChallengeRevert(sender, challengeId, stravaUserId, value)
    /\ ret' = NoRet
    /\ explicit' = explicit_afterJoinChallenge(sender, challengeId, stravaUserId, value)
    /\ UNCHANGED explicit_frame

(* activateChallenge(challengeId) *)
explicit_activateChallengeRevert(challengeId) ==
    IF explicit.challenges[challengeId].state # PENDING THEN "Challenge not pending"
    ELSE IF ~(now >= explicit.challenges[challengeId].startTime)
         THEN "Start time not reached"
    ELSE OK

\* an activation that does not look at the number of participants
explicit_activateChallenge_NoMinimum(challengeId) ==
    LET err == explicit_activateChallengeRevert(challengeId)
    IN  /\ lastOp' = "activateChallenge"
        /\ lastId' = challengeId
        /\ result' = err
        /\ ret' = NoRet
        /\ explicit' = IF err # OK THEN explicit
                       ELSE [explicit EXCEPT !.challenges[challengeId].state = ACTIVE]
        /\ UNCHANGED explicit_frame

explicit_activateChallenge(challengeId) ==
    LET err == explicit_activateChallengeRevert(challengeId)
        challenge == explicit.challenges[challengeId]
    IN  /\ lastOp' = "activateChallenge"
        /\ lastId' = challengeId
        /\ result' = err
        /\ ret' = NoRet
        /\ explicit' = IF err # OK THEN explicit
                       ELSE [explicit EXCEPT !.challenges[challengeId].state =
                                IF challenge.participantCount < challenge.minParticipants
                                THEN CANCELLED ELSE ACTIVE]
        /\ UNCHANGED explicit_frame

(* endChallenge(challengeId) *)
explicit_endChallengeRevert(challengeId) ==
    IF explicit.challenges[challengeId].state # ACTIVE THEN "Challenge not active"
    ELSE IF ~(now >= explicit.challenges[challengeId].endTime) THEN "End time not reached"
    ELSE OK

explicit_endChallenge(challengeId) ==
    LET err == explicit_endChallengeRevert(challengeId)
    IN  /\ lastOp' = "endChallenge"
        /\ lastId' = challengeId
        /\ result' = err
        /\ ret' = NoRet
        /\ explicit' = IF err # OK THEN explicit
                       ELSE [explicit EXCEPT !.challenges[challengeId].state = GRACE]
        /\ UNCHANGED explicit_frame

(* finalizeChallenge(challengeId, winner, dataHash) onlyOracle *)
explicit_finalizeChallengeRevert(sender, challengeId, winner, dataHash) ==
    IF sender # explicit.oracle THEN "Only oracle can call"
    ELSE IF explicit.challenges[challengeId].state # GRACE
         THEN "Challenge not in grace period"
    ELSE IF ~(now >= explicit.challenges[challengeId].endTime) THEN "Challenge not ended"
    ELSE IF ~(now < explicit.challenges[challengeId].endTime + EMERGENCY_PERIOD)
         THEN "Emergency period active, cannot finalize"
    ELSE IF ~explicit.participants[challengeId][winner].hasJoined
         THEN "Winner not a participant"
    ELSE IF dataHash = ZeroHash THEN "Invalid data hash"
    ELSE OK

explicit_finalizeChallenge(sender, challengeId, winner, dataHash) ==
    LET err == explicit_finalizeChallengeRevert(sender, challengeId, winner, dataHash)
    IN  /\ lastOp' = "explicit.finalizeChallenge"
        /\ lastId' = challengeId
        /\ result' = err
        /\ ret' = NoRet
        /\ explicit' = IF err # OK THEN explicit
                       ELSE [explicit EXCEPT
                                !.challenges[challengeId].state = FINALIZED,
                                !.challenges[challengeId].winner = winner,
                                !.challenges[challengeId].finalDataHash = dataHash]
        /\ UNCHANGED explicit_frame

(* claimPrizeWithSignature(challengeId, winner, dataHash, timestamp, oracleSignature) *)
explicit_claimPrizeWithSignatureRevert(sender, challengeId, winner, dataHash, timestamp, oracleSignature) ==
    IF explicit.challenges[challengeId].state # GRACE THEN "Challenge not in grace period"
    ELSE IF ~(now >= explicit.challenges[challengeId].endTime) THEN "Challenge not ended"
    ELSE IF ~(now < explicit.challenges[challengeId].endTime + EMERGENCY_PERIOD)
         THEN "Emergency period active"
    ELSE IF sender # winner THEN "Caller must be winner"
    ELSE IF ~explicit.participants[challengeId][winner].hasJoined
         THEN "Winner not a participant"
    ELSE IF dataHash = ZeroHash THEN "Invalid data hash"
    ELSE IF ~(timestamp <= now) THEN "Signature from future"
    ELSE IF ~(now - timestamp < SIGNATURE_MAX_AGE) THEN "Signature too old"
    ELSE IF recover(finalizeMessage(challengeId, winner, dataHash, timestamp),
                    oracleSignature) # explicit.oracle
         THEN "Invalid oracle signature"
    ELSE IF explicit.balance < explicit.challenges[challengeId].totalStaked
         THEN "Transfer failed"
    ELSE OK

explicit_claimPrizeWithSignature(sender, challengeId, winner, dataHash, timestamp, oracleSignature) ==
    LET err == explicit_claimPrizeWithSignatureRevert(sender, challengeId, winner,
                                                      dataHash, timestamp, oracleSignature)
        prize == explicit.challenges[challengeId].totalStaked
    IN  /\ lastOp' = "explicit.claimPrizeWithSignature"
        /\ lastId' = challengeId
        /\ result' = err
        /\ ret' = NoRet
        /\ explicit' = IF err # OK THEN explicit
                       ELSE [explicit EXCEPT
                                !.challenges[challengeId].state = COMPLETED,
                                !.challenges[challengeId].winner = winner,
                                !.challenges[challengeId].finalDataHash = dataHash,
                                !.challenges[challengeId].totalStaked = 0,
                                !.balance = @ - prize,
                                !.prizeClaimed[challengeId] = Append(@, <<winner, prize>>)]
        /\ UNCHANGED explicit_frame

(* claimPrize(challengeId) *)
explicit_claimPrizeRevert(sender, challengeId) ==
    IF explicit.challenges[challengeId].state # FINALIZED THEN "Challenge not finalized"
    ELSE IF sender # explicit.challenges[challengeId].winner THEN "Only winner can claim"
    ELSE IF explicit.balance < explicit.challenges[challengeId].totalStaked
         THEN "Transfer failed"
    ELSE OK

explicit_claimPrize(sender, challengeId) ==
    LET err == explicit_claimPrizeRevert(sender, challengeId)
        prize == explicit.challenges[challengeId].totalStaked
    IN  /\ lastOp' = "explicit.claimPrize"
        /\ lastId' = challengeId
        /\ result' = err
        /\ ret' = NoRet
        /\ explicit' = IF err # OK THEN explicit
                       ELSE [explicit EXCEPT
                                !.challenges[challengeId].state = COMPLETED,
                                !.challenges[challengeId].totalStaked = 0,
                                !.balance = @ - prize,
                                !.prizeClaimed[challengeId] = Append(@, <<sender, prize>>)]
        /\ UNCHANGED explicit_frame

(* cancelChallengeByConsent(challengeId, signatures) *)
RECURSIVE explicit_signaturesRevert(_, _, _)
explicit_signaturesRevert(challengeId, signatures, i) ==
    IF i > Len(signatures) THEN OK
    ELSE LET signer == recover(cancelMessage(challengeId), signatures[i])
         IN  IF ~explicit.participants[challengeId][signer].hasJoined
             THEN "Invalid signature"
             ELSE IF \E j \in 1 .. (i - 1) :
                        recover(cancelMessage(challengeId), signatures[j]) = signer
                  THEN "Duplicate signature"
             ELSE explicit_signaturesRevert(challengeId, signatures, i + 1)

explicit_cancelChallengeByConsentRevert(challengeId, signatures) ==
    IF explicit.challenges[challengeId].state \notin {PENDING, ACTIVE, GRACE}
    THEN "Challenge cannot be cancelled"
    ELSE IF Len(signatures) # explicit.challenges[challengeId].participantCount
         THEN "Need all participant signatures"
    ELSE explicit_signaturesRevert(challengeId, signatures, 1)

explicit_cancelChallengeByConsent(challengeId, signatures) ==
    LET err == explicit_cancelChallengeByConsentRevert(challengeId, signatures)
    IN  /\ lastOp' = "explicit.cancelChallengeByConsent"
        /\ lastId' = challengeId
        /\ result' = err
        /\ ret' = NoRet
        /\ explicit' = IF err # OK THEN explicit
                       ELSE [explicit EXCEPT !.challenges[challengeId].state = CANCELLED]
        /\ UNCHANGED explicit_frame

(* withdrawFromCancelled(challengeId) *)
explicit_withdrawFromCancelledRevert(sender, challengeId) ==
    IF explicit.challenges[challengeId].state # CANCELLED THEN "Challenge not cancelled"
    ELSE IF ~(explicit.participants[challengeId][sender].stake > 0)
         THEN "No stake to withdraw"
    ELSE IF explicit.participants[challengeId][sender].stake
              > explicit.challenges[challengeId].totalStaked
         THEN "Panic(0x11)"
    ELSE IF explicit.balance < explicit.participants[challengeId][sender].stake
         THEN "Transfer failed"
    ELSE OK

explicit_withdrawFromCancelled(sender, challengeId) ==
    LET err == explicit_withdrawFromCancelledRevert(sender, challengeId)
        amount == explicit.participants[challengeId][sender].stake
    IN  /\ lastOp' = "explicit.withdrawFromCancelled"
        /\ lastId' = challengeId
        /\ result' = err
        /\ ret' = NoRet
        /\ explicit' = IF err # OK THEN explicit
                       ELSE [explicit EXCEPT
                                !.participants[challengeId][sender].stake = 0,
                                !.challenges[challengeId].totalStaked = @ - amount,
                                !.balance = @ - amount]
        /\ UNCHANGED explicit_frame

(* emergencyWithdraw(challengeId) *)
explicit_emergencyWithdrawRevert(sender, challengeId) ==
    IF explicit.challenges[challengeId].state \in {FINALIZED, COMPLETED, CANCELLED}
    THEN "Challenge already resolved"
    ELSE IF ~(now >= explicit.challenges[challengeId].endTime + EMERGENCY_PERIOD)
         THEN "Emergency period not reached"
    ELSE IF ~(explicit.participants[challengeId][sender].stake > 0)
         THEN "No stake to withdraw"
    ELSE IF explicit.participants[challengeId][sender].stake
              > explicit.challenges[challengeId].totalStaked
         THEN "Panic(0x11)"
    ELSE IF explicit.balance < explicit.participants[challengeId][sender].stake
         THEN "Transfer failed"
    ELSE OK

explicit_emergencyWithdraw(sender, challengeId) ==
    LET err == explicit_emergencyWithdrawRevert(sender, challengeId)
        amount == explicit.participants[challengeId][sender].stake
    IN  /\ lastOp' = "explicit.emergencyWithdraw"
        /\ lastId' = challengeId
        /\ result' = err
        /\ ret' = NoRet
        /\ explicit' = IF err # OK THEN explicit
                       ELSE [explicit EXCEPT
                                !.participants[challengeId][sender].stake = 0,
                                !.challenges[challengeId].totalStaked = @ - amount,
                                !.balance = @ - amount]
        /\ UNCHANGED explicit_frame

(* updateOracle(newOracle) onlyOracle *)
explicit_updateOracleRevert(sender, newOracle) ==
    IF sender # explicit.oracle THEN "Only oracle can call"
    ELSE IF newOracle = ZERO THEN "Invalid oracle address"
    ELSE OK

explicit_updateOracle(sender, newOracle) ==
    LET err == explicit_updateOracleRevert(sender, newOracle)
    IN  /\ lastOp' = "explicit.updateOracle"
        /\ lastId' = NoId
        /\ result' = err
        /\ ret' = NoRet
        /\ explicit' = IF err # OK THEN explicit ELSE [explicit EXCEPT !.oracle = newOracle]
        /\ UNCHANGED explicit_frame

(* The time between two blocks, in steps of TickStep: one or two steps at  *)
(* once, so that it may pass the start and the end of a challenge in one   *)
(* advance.  It passes whether or not anybody has called activateChallenge *)
(* or endChallenge.                                                        *)
AdvanceSteps == {1, 2}

Advance(steps) ==
    /\ now + steps * TickStep <= MaxTime
    /\ now' = now + steps * TickStep
    /\ lastOp' = "tick"
    /\ lastId' = NoId
    /\ result' = OK
    /\ ret' = NoRet
    /\ UNCHANGED <<storage, service, revisions>>

(* The explicit-transition ledger on its own, every function of it called  *)
(* in any order.                                                           *)
NextExplicit ==
    \/ \E steps \in AdvanceSteps : Advance(steps)
    \/ \E challengeId \in ChallengeKeys, startTime \in StartTimes, endTime \in EndTimes,
          stakeAmount \in StakeAmounts, minParticipants \in MinParticipants :
          explicit_createChallenge("A", challengeId, startTime, endTime, stakeAmount,
                                   minParticipants)
    \/ \E sender \in Users, challengeId \in ChallengeKeys, stravaUserId \in StravaIds,
          value \in SentValues :
          explicit_joinChallenge(sender, challengeId, stravaUserId, value)
    \/ \E challengeId \in ChallengeKeys : explicit_activateChallenge(challengeId)
    \/ \E challengeId \in ChallengeKeys : explicit_endChallenge(challengeId)
    \/ \E sender \in Finalizers, challengeId \in ChallengeKeys, winner \in FinalizeWinners,
          dataHash \in DataHashes :
          explicit_finalizeChallenge(sender, challengeId, winner, dataHash)
    \/ \E challengeId \in ChallengeKeys : \E call \in AttestedClaims(challengeId) :
          explicit_claimPrizeWithSignature(call.sender, challengeId, call.winner,
                                           call.dataHash, call.timestamp, call.signature)
    \/ \E sender \in Users, challengeId \in ChallengeKeys :
          explicit_claimPrize(sender, challengeId)
    \/ \E challengeId \in ChallengeKeys : \E signatures \in ConsentLists(challengeId) :
          explicit_cancelChallengeByConsent(challengeId, signatures)
    \/ \E sender \in Users, challengeId \in ChallengeKeys :
          explicit_withdrawFromCancelled(sender, challengeId)
    \/ \E sender \in Users, challengeId \in ChallengeKeys :
          explicit_emergencyWithdraw(sender, challengeId)
    \/ \E sender \in UpdateSenders, newOracle \in NewOracles :
          explicit_updateOracle(sender, newOracle)

SpecExplicit == Init /\ [][NextExplicit]_vars

(***************************************************************************)
(* The two revisions side by side: two contracts, each called in           *)
(* transactions of its own.  A createChallenge or joinChallenge sent to    *)
(* one ledger may or may not be sent to the other, before or after the     *)
(* time advances, and activateChallenge and endChallenge are called on the *)
(* explicit ledger whenever somebody chooses to, early, late or never.     *)
(* Settled says that on the explicit ledger no transition of a created     *)
(* challenge is due, and SameCalls that the two ledgers have accepted the  *)
(* same createChallenge and joinChallenge calls: they hold the same        *)
(* challenges, participants and stakes.                                    *)
(***************************************************************************)
Settled ==
    \A k \in ChallengeKeys :
        explicit.challenges[k].creator # ZERO
          => /\ explicit_activateChallengeRevert(k) # OK
             /\ explicit_endChallengeRevert(k) # OK

SameCalls ==
    /\ \A k \in ChallengeKeys :
          [lazy.challenges[k] EXCEPT !.state = PENDING]
              = [explicit.challenges[k] EXCEPT !.state = PENDING]
    /\ lazy.participants = explicit.participants
    /\ lazy.participantList = explicit.participantList
    /\ lazy.balance = explicit.balance

LifecycleStarts == {DeployTime + TickStep, DeployTime + 2 * TickStep}
LifecycleMinimum == {2, 3}

NextLifecycle ==
    \/ \E steps \in AdvanceSteps : Advance(steps)
    \/ \E challengeId \in ChallengeKeys, startTime \in LifecycleStarts,
          minParticipants \in LifecycleMinimum :
          lazy_createChallenge("A", challengeId, startTime, DeployTime + 3 * TickStep,
                               OracleStake, minParticipants)
    \/ \E challengeId \in ChallengeKeys, startTime \in LifecycleStarts,
          minParticipants \in LifecycleMinimum :
          explicit_createChallenge("A", challengeId, startTime, DeployTime + 3 * TickStep,
                                   OracleStake, minParticipants)
    \/ \E sender \in Users, challengeId \in ChallengeKeys :
          lazy_joinChallenge(sender, challengeId, "s", OracleStake)
    \/ \E sender \in Users, challengeId \in ChallengeKeys :
          explicit_joinChallenge(sender, challengeId, "s", OracleStake)
    \/ \E challengeId \in ChallengeKeys : explicit_activateChallenge(challengeId)
    \/ \E challengeId \in ChallengeKeys : explicit_endChallenge(challengeId)

SpecLifecycle == Init /\ [][NextLifecycle]_vars

(***************************************************************************)
(* Properties.                                                             *)
(***************************************************************************)
StakeSum(challengeId) ==
    SumOver([a \in Addresses |-> Part(challengeId, a).stake], Addresses)

Refunded(challengeId) == SumOver(hist[challengeId + 1].refunded, Users)

HasStake(challengeId, a) ==
    Exists(challengeId) /\ Part(challengeId, a).stake > 0

CanWithdraw(challengeId, a) ==
    /\ Exists(challengeId)
    /\ \/ withdrawFromCancelledRevert(a, challengeId) = OK
       \/ emergencyWithdrawRevert(a, challengeId) = OK

EmergencyOpen(challengeId) ==
    now >= Chal(challengeId).endTime + EMERGENCY_PERIOD

Resolved(challengeId) ==
    getEffectiveState(challengeId) \in {FINALIZED, COMPLETED, CANCELLED}

(* C1: for every challenge, totalStaked equals the sum of the stake fields *)
(* of the challenge's participant records.                                 *)
C1_TotalStakedIsStakeSum ==
    \A c \in ChallengeIds : Chal(c).totalStaked = StakeSum(c)

(* C2: funds are neither created nor lost nor paid twice: what the joins   *)
(* paid in is what the challenge still holds plus what was transferred     *)
(* out; a participant is refunded at most once, and only its own stake; a  *)
(* prize is paid at most once; and no challenge pays both a prize and a    *)
(* refund (no withdrawal after COMPLETED, no claim after a withdrawal).    *)
C2_FundsConserved ==
    /\ balance = SumOver([c \in ChallengeIds |-> Chal(c).totalStaked], ChallengeIds)
    /\ \A c \in ChallengeIds :
        LET h == hist[c + 1] IN
        /\ h.deposited = Chal(c).totalStaked + Refunded(c) + h.prize
        /\ h.deposited = Chal(c).stakeAmount * SumOver(h.joins, Users)
        /\ h.claims <= 1
        /\ (Chal(c).state = COMPLETED) <=> (h.claims = 1)
        /\ \A a \in Users :
            /\ h.refunds[a] <= 1
            /\ h.refunded[a] = h.refunds[a] * Chal(c).stakeAmount
            /\ h.refunds[a] <= h.joins[a]
            /\ h.claims = 1 => h.refunds[a] = 0

C2_Witness ==
    \E c \in ChallengeIds :
        /\ hist[c + 1].claims = 1
        /\ hist[c + 1].prize = hist[c + 1].deposited
        /\ hist[c + 1].prize >= 2 * Chal(c).stakeAmount

(* C3: claimPrizeWithSignature succeeds at most once per challenge; after  *)
(* a successful claim the stored and the effective state are COMPLETED,    *)
(* and every further claim is rejected with the state error and changes    *)
(* nothing.                                                                *)
C3_ClaimAtMostOnce ==
    /\ [](\A c \in ChallengeIds :
            /\ hist[c + 1].claims <= 1
            /\ hist[c + 1].claims = 1 =>
                  /\ Chal(c).state = COMPLETED
                  /\ getEffectiveState(c) = COMPLETED)
    /\ [][(/\ lastOp' = "claimPrizeWithSignature"
            /\ lastId' \in ChallengeIds
            /\ hist[lastId' + 1].claims >= 1)
           => /\ result' = "Challenge not in grace period"
              /\ UNCHANGED storage]_vars

C3_Witness ==
    /\ lastOp = "claimPrizeWithSignature"
    /\ result = "Challenge not in grace period"
    /\ \E c \in ChallengeIds : hist[c + 1].claims = 1

(* C4: every participant whose recorded stake is > 0 eventually can        *)
(* withdraw it (withdrawFromCancelled or emergencyWithdraw enabled), and   *)
(* once it can, it can until it has withdrawn.                             *)
C4_NoStakeStranded ==
    /\ \A c \in 0 .. (MaxChallenges - 1) : \A a \in Users :
          HasStake(c, a) ~> CanWithdraw(c, a)
    /\ [][\A c \in ChallengeIds : \A a \in Users :
            (CanWithdraw(c, a) /\ HasStake(c, a)') => CanWithdraw(c, a)']_vars

(* C5 as stated: emergencyWithdraw is rejected before end + 14 days, and   *)
(* succeeds from then on for every caller whose recorded stake is > 0.     *)
C5_EmergencyAlwaysAvailable ==
    [][lastOp' = "emergencyWithdraw" =>
       \A c \in ChallengeIds : \A a \in Users :
         emergencyWithdraw(a, c) =>
            /\ ~EmergencyOpen(c) => result' # OK
            /\ (EmergencyOpen(c) /\ Part(c, a).stake > 0) => result' = OK]_vars

(* C5 amended: emergencyWithdraw is rejected before end + 14 days; from    *)
(* then on a call by a participant whose recorded stake is > 0 succeeds    *)
(* exactly when the effective state is none of FINALIZED, COMPLETED and    *)
(* CANCELLED, and then pays back that stake.                               *)
C5_EmergencyWindow ==
    [][lastOp' = "emergencyWithdraw" =>
       \A c \in ChallengeIds : \A a \in Users :
         emergencyWithdraw(a, c) =>
            /\ ~EmergencyOpen(c) => result' # OK
            /\ (EmergencyOpen(c) /\ Part(c, a).stake > 0) =>
                  /\ (result' = OK) <=> ~Resolved(c)
                  /\ result' = OK =>
                        /\ balance' = balance - Part(c, a).stake
                        /\ Part(c, a).stake' = 0]_vars

C5_Witness ==
    /\ lastOp = "emergencyWithdraw"
    /\ result = OK
    /\ \E c \in ChallengeIds : \E a \in Users :
          /\ EmergencyOpen(c)
          /\ hist[c + 1].refunds[a] = 1
          /\ Chal(c).state = PENDING

(* C6: getEffectiveState returns the stored state when that is COMPLETED,  *)
(* FINALIZED or CANCELLED; else CANCELLED when the stored state is         *)
(* PENDING, now >= start and participantCount < |whitelist|; else          *)
(* GRACE_PERIOD when now >= end; else ACTIVE when now >= start; else       *)
(* PENDING.                                                                *)
C6_EffectiveStateTable ==
    (lastOp = "getEffectiveState" /\ result = OK) =>
        LET ch == Chal(0)
            terminal == ch.state \in {COMPLETED, FINALIZED, CANCELLED}
            under == /\ ch.state = PENDING
                     /\ now >= ch.startTime
                     /\ ch.participantCount < Len(Allowed(0))
        IN  /\ terminal => ret = ch.state
            /\ (~terminal /\ under) => ret = CANCELLED
            /\ (~terminal /\ ~under /\ now >= ch.endTime) => ret = GRACE
            /\ (~terminal /\ ~under /\ now < ch.endTime /\ now >= ch.startTime)
                  => ret = ACTIVE
            /\ (~terminal /\ ~under /\ now < ch.endTime /\ now < ch.startTime)
                  => ret = PENDING

(* an under-subscribed challenge read after its end time: CANCELLED *)
C6_Witness ==
    /\ lastOp = "getEffectiveState"
    /\ result = OK
    /\ ret = CANCELLED
    /\ Chal(0).state = PENDING
    /\ now >= Chal(0).endTime
    /\ Chal(0).participantCount < Len(Allowed(0))

(* C7: a call of getEffectiveState changes no stored field and not the     *)
(* clock, and the value it returned is the value a second call in the      *)
(* state it leaves returns.                                                *)
C7_GetEffectiveStateIsRead ==
    [][lastOp' = "getEffectiveState" =>
         /\ UNCHANGED <<challenges, participants, allowedParticipantsList, oracle,
                        balance, hist, now>>
         /\ \A c \in CallIds :
               (getEffectiveStateCall(c) /\ Exists(c)) =>
                   /\ ret' = getEffectiveState(c)
                   /\ ret' = getEffectiveState(c)']_vars

(* the getter answered ACTIVE, GRACE_PERIOD or CANCELLED for a challenge   *)
(* whose stored state is still PENDING                                     *)
C7_Witness ==
    /\ lastOp = "getEffectiveState"
    /\ result = OK
    /\ ret \in {ACTIVE, GRACE, CANCELLED}
    /\ \A c \in ChallengeIds : Chal(c).state = PENDING
    /\ ChallengeIds # {}

(* C8: the effective state never moves backwards: from GRACE_PERIOD never  *)
(* to PENDING or ACTIVE; from CANCELLED, COMPLETED or FINALIZED never to   *)
(* PENDING, ACTIVE or GRACE_PERIOD; CANCELLED and COMPLETED never change.  *)
C8_EffectiveStateMonotone ==
    [][\A c \in ChallengeIds :
         LET before == getEffectiveState(c)
             after == getEffectiveState(c)'
         IN  /\ before = GRACE => after \notin {PENDING, ACTIVE}
             /\ before \in {CANCELLED, COMPLETED, FINALIZED}
                   => after \notin {PENDING, ACTIVE, GRACE}
             /\ before = CANCELLED => after = CANCELLED
             /\ before = COMPLETED => after = COMPLETED]_vars

(* a challenge cancelled by under-subscription, still CANCELLED (and not   *)
(* GRACE_PERIOD) after its end, its stored state still PENDING             *)
C8_Witness ==
    \E c \in ChallengeIds :
        /\ Chal(c).state = PENDING
        /\ getEffectiveState(c) = CANCELLED
        /\ now >= Chal(c).endTime
        /\ Chal(c).participantCount >= 1

(* C9: each identity joins a challenge at most once, also after it has     *)
(* withdrawn its stake, and every joinChallenge issued while the effective *)
(* state is not PENDING is rejected.                                       *)
C9_JoinOnceWhilePending ==
    /\ [](\A c \in ChallengeIds : \A a \in Users : hist[c + 1].joins[a] <= 1)
    /\ [][lastOp' = "joinChallenge" =>
           \A c \in ChallengeIds : \A a \in Users, id \in StravaIds, v \in SentValues :
              (/\ joinChallenge(a, c, id, v)
               /\ \/ getEffectiveState(c) # PENDING
                  \/ Part(c, a).hasJoined
                  \/ hist[c + 1].joins[a] > 0)
              => /\ result' # OK
                 /\ UNCHANGED storage]_vars

(* a join was rejected on a challenge where somebody has joined and has    *)
(* withdrawn its stake                                                     *)
C9_Witness ==
    /\ lastOp = "joinChallenge"
    /\ result # OK
    /\ \E c \in ChallengeIds : \E a \in Users :
          /\ hist[c + 1].joins[a] = 1
          /\ hist[c + 1].refunds[a] = 1
          /\ Part(c, a).stake = 0

(* C10: joinChallenge succeeds only for a whitelisted caller sending       *)
(* exactly stakeAmount with a non-empty Strava id; it then records the     *)
(* caller as joined with that stake, adds 1 to participantCount and        *)
(* stakeAmount to totalStaked, and changes nothing else.                   *)
C10_JoinEffect ==
    [][(lastOp' = "joinChallenge" /\ result' = OK) =>
       \A c \in ChallengeIds : \A a \in Users, id \in StravaIds, v \in SentValues :
         joinChallenge(a, c, id, v) =>
            /\ isAllowedParticipant(c, a)
            /\ v = Chal(c).stakeAmount
            /\ id # ""
            /\ Part(c, a)' = [userAddress |-> a, stravaUserId |-> id,
                              stake |-> Chal(c).stakeAmount, hasJoined |-> TRUE]
            /\ Chal(c)' = [Chal(c) EXCEPT
                              !.participantCount = @ + 1,
                              !.totalStaked = @ + Chal(c).stakeAmount]
            /\ \A b \in Addresses \ {a} : Part(c, b)' = Part(c, b)
            /\ \A d \in ChallengeIds \ {c} :
                  /\ Chal(d)' = Chal(d)
                  /\ participants'[d + 1] = participants[d + 1]
            /\ Len(challenges') = Len(challenges)
            /\ UNCHANGED <<allowedParticipantsList, oracle, now>>
            /\ balance' = balance + Chal(c).stakeAmount]_vars

C10_Witness ==
    /\ lastOp = "joinChallenge"
    /\ result = OK
    /\ \E c \in ChallengeIds : Chal(c).participantCount = Len(Allowed(c))

(* C11 as stated: a join at now >= start by a whitelisted identity is      *)
(* rejected with 'Challenge not accepting participants', joined or not; a  *)
(* second join by the same identity while the challenge is PENDING is      *)
(* rejected with 'Already joined'; a caller not on the whitelist gets 'Not *)
(* on whitelist'.                                                          *)
C11_JoinRejectionsNamed ==
    [][lastOp' = "joinChallenge" =>
       \A c \in ChallengeIds : \A a \in Users, id \in StravaIds, v \in SentValues :
         joinChallenge(a, c, id, v) =>
            /\ ~isAllowedParticipant(c, a) => result' = "Not on whitelist"
            /\ (isAllowedParticipant(c, a) /\ now >= Chal(c).startTime)
                  => result' = "Challenge not accepting participants"
            /\ (Part(c, a).hasJoined /\ getEffectiveState(c) = PENDING)
                  => result' = "Already joined"]_vars

(* C11 amended: as above, except that the second join of an identity while *)
(* the challenge is PENDING is rejected with 'Already joined' when it      *)
(* sends exactly stakeAmount, and with 'Incorrect stake amount' when it    *)
(* sends another value: the stake sent is looked at before the join        *)
(* record.                                                                 *)
C11_JoinRejectionsByValue ==
    [][lastOp' = "joinChallenge" =>
       \A c \in ChallengeIds : \A a \in Users, id \in StravaIds, v \in SentValues :
         joinChallenge(a, c, id, v) =>
            /\ ~isAllowedParticipant(c, a) => result' = "Not on whitelist"
            /\ (isAllowedParticipant(c, a) /\ now >= Chal(c).startTime)
                  => result' = "Challenge not accepting participants"
            /\ (Part(c, a).hasJoined /\ getEffectiveState(c) = PENDING)
                  => result' = IF v = Chal(c).stakeAmount THEN "Already joined"
                               ELSE "Incorrect stake amount"]_vars

(* a second join, sending the right stake, was rejected while the          *)
(* challenge is still PENDING                                              *)
C11_Witness ==
    /\ lastOp = "joinChallenge"
    /\ result = "Already joined"
    /\ \E c \in ChallengeIds :
          /\ getEffectiveState(c) = PENDING
          /\ Chal(c).participantCount >= 1

Joined(challengeId) == {a \in Addresses : Part(challengeId, a).hasJoined}

CancelSigners(challengeId, signatures) ==
    {recover(cancelMessage(challengeId), signatures[i]) : i \in 1 .. Len(signatures)}

(* C12: cancelChallengeByConsent succeeds only if the effective state is   *)
(* PENDING, ACTIVE or GRACE_PERIOD and the signers recovered from the      *)
(* signatures are, each once, exactly the identities that have joined; a   *)
(* list that misses a participant, names a signer twice or holds the       *)
(* signature of a non-participant is rejected, and a rejected call leaves  *)
(* the state unchanged.                                                    *)
C12_CancelNeedsAllAndOnly ==
    [][lastOp' = "cancelChallengeByConsent" =>
       \A c \in ChallengeIds : \A signatures \in CancelCalls(c) :
         cancelChallengeByConsent(c, signatures) =>
            LET signers == CancelSigners(c, signatures)
                exact == /\ signers = Joined(c)
                         /\ Len(signatures) = Cardinality(signers)
            IN  /\ result' = OK =>
                      /\ getEffectiveState(c) \in {PENDING, ACTIVE, GRACE}
                      /\ exact
                /\ ~exact => result' # OK
                /\ result' # OK => UNCHANGED storage]_vars

(* a challenge with at least two participants was cancelled by consent *)
C12_Witness ==
    /\ lastOp = "cancelChallengeByConsent"
    /\ result = OK
    /\ \E c \in ChallengeIds :
          /\ Chal(c).state = CANCELLED
          /\ Chal(c).participantCount >= 2
          /\ hist[c + 1].cancelEvents = 1

(* C13: withdrawFromCancelled succeeds exactly when the effective state is *)
(* CANCELLED and the caller's recorded stake is > 0; it then pays exactly  *)
(* that stake to the caller, sets the caller's stake to 0 and takes the    *)
(* same amount off totalStaked.  A repeated call and a call by an identity *)
(* that never joined are rejected with 'No stake to withdraw', a call      *)
(* while the effective state is not CANCELLED with 'Challenge not          *)
(* cancelled'.                                                             *)
C13_WithdrawFromCancelled ==
    [][lastOp' = "withdrawFromCancelled" =>
       \A c \in ChallengeIds : \A a \in Users :
         withdrawFromCancelled(a, c) =>
            LET stake == Part(c, a).stake
                cancelled == getEffectiveState(c) = CANCELLED
            IN  /\ (result' = OK) <=> (cancelled /\ stake > 0)
                /\ result' = OK =>
                      /\ balance' = balance - stake
                      /\ hist'[c + 1].refunded[a] = hist[c + 1].refunded[a] + stake
                      /\ Part(c, a).stake' = 0
                      /\ Chal(c).totalStaked' = Chal(c).totalStaked - stake
                      /\ \A b \in Addresses \ {a} : Part(c, b)' = Part(c, b)
                /\ ~cancelled => result' = "Challenge not cancelled"
                /\ (cancelled /\ (hist[c + 1].refunds[a] >= 1 \/ ~Part(c, a).hasJoined))
                      => result' = "No stake to withdraw"]_vars

(* whitelist of three, two joined, both have recovered their stake, and a  *)
(* further call failed for want of a stake                                 *)
C13_Witness ==
    /\ lastOp = "withdrawFromCancelled"
    /\ result = "No stake to withdraw"
    /\ \E c \in ChallengeIds :
          /\ Len(Allowed(c)) = 3
          /\ Chal(c).participantCount = 2
          /\ Chal(c).totalStaked = 0
          /\ Cardinality({a \in Users : hist[c + 1].refunds[a] = 1}) = 2
          /\ balance = 0

(* C14: ChallengeCancelled is emitted at most once per challenge, and the  *)
(* stored state is CANCELLED if and only if it has been emitted.  It is    *)
(* emitted only by a successful cancelChallengeByConsent or by a           *)
(* successful withdrawFromCancelled on a challenge whose stored state is   *)
(* not yet CANCELLED, and that step writes the stored state CANCELLED; a   *)
(* withdrawal from a challenge stored as CANCELLED emits nothing.          *)
C14_CancelledEmittedOnce ==
    /\ [](\A c \in ChallengeIds :
            /\ hist[c + 1].cancelEvents <= 1
            /\ (Chal(c).state = CANCELLED) <=> (hist[c + 1].cancelEvents = 1))
    /\ [][\A c \in ChallengeIds :
            /\ hist'[c + 1].cancelEvents # hist[c + 1].cancelEvents =>
                  /\ lastOp' \in {"cancelChallengeByConsent", "withdrawFromCancelled"}
                  /\ lastId' = c
                  /\ result' = OK
                  /\ Chal(c).state # CANCELLED
                  /\ Chal(c).state' = CANCELLED
                  /\ hist'[c + 1].cancelEvents = hist[c + 1].cancelEvents + 1
            /\ (/\ lastOp' = "withdrawFromCancelled"
                /\ lastId' = c
                /\ result' = OK
                /\ Chal(c).state # CANCELLED)
                  => hist'[c + 1].cancelEvents = hist[c + 1].cancelEvents + 1
            /\ (/\ lastOp' = "withdrawFromCancelled"
                /\ lastId' = c
                /\ result' = OK
                /\ Chal(c).state = CANCELLED)
                  => hist'[c + 1].cancelEvents = hist[c + 1].cancelEvents]_vars

(* the second withdrawal from an under-subscribed challenge: the event of  *)
(* the first one is the only one                                           *)
C14_Witness ==
    /\ lastOp = "withdrawFromCancelled"
    /\ result = OK
    /\ \E c \in ChallengeIds :
          /\ Cardinality({a \in Users : hist[c + 1].refunds[a] = 1}) = 2
          /\ hist[c + 1].cancelEvents = 1
          /\ Chal(c).state = CANCELLED

(* C15: a claimPrizeWithSignature call succeeds only if the effective      *)
(* state is GRACE_PERIOD, end <= now < end + 14 days, the caller is the    *)
(* winner named and has joined, the result hash is not zero, the signing   *)
(* timestamp is not in the future and less than 30 days old, and the       *)
(* signature is the registered oracle's over the finalize message of       *)
(* exactly this challenge id, winner, hash and timestamp; a signature over *)
(* any other message is rejected.                                          *)
C15_ClaimPreconditions ==
    [][(lastOp' = "claimPrizeWithSignature" /\ result' = OK) =>
       \A c \in ChallengeIds : \A call \in ClaimCalls(c) :
         claimPrizeWithSignature(call.sender, c, call.winner, call.dataHash,
                                 call.timestamp, call.signature) =>
            /\ getEffectiveState(c) = GRACE
            /\ Chal(c).endTime <= now
            /\ now < Chal(c).endTime + 14 * days
            /\ call.sender = call.winner
            /\ Part(c, call.winner).hasJoined
            /\ call.dataHash # ZeroHash
            /\ call.timestamp <= now
            /\ now - call.timestamp < 30 * days
            /\ call.signature.signer = oracle
            /\ call.signature.msg =
                  finalizeMessage(c, call.winner, call.dataHash, call.timestamp)]_vars

(* a claim succeeded under an oracle key registered after deployment *)
C15_Witness ==
    /\ lastOp = "claimPrizeWithSignature"
    /\ result = OK
    /\ oracle = "O2"
    /\ \E c \in ChallengeIds :
          /\ Chal(c).state = COMPLETED
          /\ Chal(c).winner \in Users
          /\ hist[c + 1].prize >= 2 * Chal(c).stakeAmount

(* C16: a successful claimPrizeWithSignature, in one step, stores the      *)
(* state COMPLETED, the winner and the result hash, sets totalStaked to 0  *)
(* and transfers to the claimant the whole totalStaked held before the     *)
(* call; no challenge is ever stored as FINALIZED, finalized but unpaid.   *)
C16_ClaimEffect ==
    /\ [](\A c \in ChallengeIds : Chal(c).state # FINALIZED)
    /\ [][(lastOp' = "claimPrizeWithSignature" /\ result' = OK) =>
          \A c \in ChallengeIds : \A call \in ClaimCalls(c) :
            claimPrizeWithSignature(call.sender, c, call.winner, call.dataHash,
                                    call.timestamp, call.signature) =>
               /\ Chal(c)' = [Chal(c) EXCEPT !.state = COMPLETED,
                                             !.winner = call.sender,
                                             !.finalDataHash = call.dataHash,
                                             !.totalStaked = 0]
               /\ balance' = balance - Chal(c).totalStaked
               /\ hist'[c + 1].prize = hist[c + 1].prize + Chal(c).totalStaked
               /\ hist'[c + 1].prizeTo = call.sender
               /\ Chal(c).totalStaked =
                     Chal(c).stakeAmount * Chal(c).participantCount]_vars

(* three participants joined with one stake each, and the claimant was     *)
(* paid the three stakes                                                   *)
C16_Witness ==
    /\ lastOp = "claimPrizeWithSignature"
    /\ result = OK
    /\ \E c \in ChallengeIds :
          /\ Chal(c).participantCount = 3
          /\ Chal(c).state = COMPLETED
          /\ Chal(c).totalStaked = 0
          /\ hist[c + 1].prize = 3 * Chal(c).stakeAmount
          /\ hist[c + 1].prizeTo = Chal(c).winner
          /\ Chal(c).finalDataHash # ZeroHash

(* C17: signature domains are separated: a claimPrizeWithSignature that    *)
(* succeeds was given a signature over a finalize message, never one over  *)
(* a cancel or a confirmation message, whoever signed it; and a            *)
(* cancelChallengeByConsent that succeeds was given signatures over the    *)
(* cancel message only, never one over a finalize or a confirmation        *)
(* message.                                                                *)
C17_SignatureDomains ==
    /\ [][(lastOp' = "claimPrizeWithSignature" /\ result' = OK) =>
          \A c \in ChallengeIds : \A call \in ClaimCalls(c) :
            claimPrizeWithSignature(call.sender, c, call.winner, call.dataHash,
                                    call.timestamp, call.signature) =>
               /\ call.signature.msg[1] = "FINALIZE_CHALLENGE_"
               /\ call.signature.msg # cancelMessage(c)
               /\ call.signature.msg # confirmMessage(c)]_vars
    /\ [][(lastOp' = "cancelChallengeByConsent" /\ result' = OK) =>
          \A c \in ChallengeIds : \A signatures \in CancelCalls(c) :
            cancelChallengeByConsent(c, signatures) =>
               \A i \in 1 .. Len(signatures) :
                  /\ signatures[i].msg = cancelMessage(c)
                  /\ signatures[i].msg[1] \notin {"FINALIZE_CHALLENGE_",
                                                  "CONFIRM_CHALLENGE_"}]_vars

(* every identity has joined, so every signature over the cancel message   *)
(* offered is a participant's; the cancellation rejected for an invalid    *)
(* signature held one made over a finalize or a confirmation message       *)
C17_Witness ==
    /\ lastOp = "cancelChallengeByConsent"
    /\ result = "Invalid signature"
    /\ \E c \in ChallengeIds :
          /\ Chal(c).participantCount = 3
          /\ \A a \in Users : Part(c, a).hasJoined
          /\ getEffectiveState(c) \in {PENDING, ACTIVE, GRACE}

LedgerOps ==
    {"createChallenge", "joinChallenge", "claimPrizeWithSignature",
     "cancelChallengeByConsent", "withdrawFromCancelled", "emergencyWithdraw",
     "updateOracle"}

(* C18: a rejected createChallenge, joinChallenge,                         *)
(* claimPrizeWithSignature, cancelChallengeByConsent,                      *)
(* withdrawFromCancelled, emergencyWithdraw or updateOracle leaves the     *)
(* whole ledger as it was: every challenge record, every participant       *)
(* record, the whitelists, the oracle key, the ether held and the ether    *)
(* paid out.                                                               *)
C18_RejectionChangesNothing ==
    [][(lastOp' \in LedgerOps /\ result' # OK) =>
         /\ challenges' = challenges
         /\ participants' = participants
         /\ allowedParticipantsList' = allowedParticipantsList
         /\ oracle' = oracle
         /\ balance' = balance
         /\ hist' = hist]_vars

(* a createChallenge was rejected inside the whitelist loop, after the     *)
(* push of the challenge record: no challenge exists                       *)
C18_Witness ==
    /\ lastOp = "createChallenge"
    /\ result \in {"Duplicate address in whitelist", "Invalid address in whitelist",
                   "Creator is automatically included"}
    /\ Len(challenges) = 0
    /\ Len(allowedParticipantsList) = 0

(* C19: the oracle key changes only by an updateOracle that succeeds, and  *)
(* updateOracle succeeds exactly when the caller holds the current oracle  *)
(* key and the new key is not the null address; it then registers the new  *)
(* key, and a rejected call leaves the key as it was.                      *)
C19_OracleKeyUpdate ==
    /\ [][oracle' # oracle => (lastOp' = "updateOracle" /\ result' = OK)]_vars
    /\ [][lastOp' = "updateOracle" =>
          \A sender \in UpdateSenders, newOracle \in NewOracles :
            updateOracle(sender, newOracle) =>
               /\ (result' = OK) <=> (sender = oracle /\ newOracle # ZERO)
               /\ result' = OK => oracle' = newOracle
               /\ result' # OK => oracle' = oracle
               /\ sender # oracle => result' = "Only oracle can call"
               /\ (sender = oracle /\ newOracle = ZERO)
                     => result' = "Invalid oracle address"]_vars

(* after a rotation, the holder of the former key called and was rejected  *)
C19_Witness ==
    /\ lastOp = "updateOracle"
    /\ result = "Only oracle can call"
    /\ oracle = "O2"

(* C20: createChallenge succeeds if and only if start > now, end > start,  *)
(* stakeAmount > 0, the list of other eligible addresses has at least one  *)
(* entry, no entry is the null address or the creator, and no entry is     *)
(* repeated.  On success the new challenge is stored PENDING with          *)
(* participantCount 0, totalStaked 0, no winner, and its whitelist is the  *)
(* creator followed by the others, without duplicates; on failure no       *)
(* challenge is added.                                                     *)
C20_CreateChallenge ==
    [][lastOp' = "createChallenge" =>
       \A sender \in Creators, startTime \in StartTimes, endTime \in EndTimes,
          stakeAmount \in StakeAmounts, allowedAddresses \in AllowedLists :
         createChallenge(sender, startTime, endTime, stakeAmount, allowedAddresses) =>
            LET others == Range(allowedAddresses)
                valid == /\ startTime > now
                         /\ endTime > startTime
                         /\ stakeAmount > 0
                         /\ Len(allowedAddresses) >= 1
                         /\ ZERO \notin others
                         /\ sender \notin others
                         /\ Cardinality(others) = Len(allowedAddresses)
                n == Len(challenges)
            IN  /\ (result' = OK) <=> valid
                /\ result' = OK =>
                      /\ Len(challenges') = n + 1
                      /\ \A i \in 1 .. n : challenges'[i] = challenges[i]
                      /\ challenges'[n + 1].state = PENDING
                      /\ challenges'[n + 1].participantCount = 0
                      /\ challenges'[n + 1].totalStaked = 0
                      /\ challenges'[n + 1].winner = ZERO
                      /\ challenges'[n + 1].creator = sender
                      /\ challenges'[n + 1].startTime = startTime
                      /\ challenges'[n + 1].endTime = endTime
                      /\ challenges'[n + 1].stakeAmount = stakeAmount
                      /\ Len(allowedParticipantsList') = n + 1
                      /\ Range(allowedParticipantsList'[n + 1]) = {sender} \cup others
                      /\ Len(allowedParticipantsList'[n + 1]) =
                            Cardinality({sender} \cup others)
                      /\ \A a \in Addresses : ~participants'[n + 1][a].hasJoined
                /\ result' # OK =>
                      /\ challenges' = challenges
                      /\ allowedParticipantsList' = allowedParticipantsList]_vars

(* a challenge was created with two other eligible addresses *)
C20_Witness ==
    /\ lastOp = "createChallenge"
    /\ result = OK
    /\ Len(challenges) >= 1
    /\ Chal(lastId).state = PENDING
    /\ Chal(lastId).participantCount = 0
    /\ Len(Allowed(lastId)) = 3
    /\ Range(Allowed(lastId)) = Users

(***************************************************************************)
(* The attestation protocol.                                               *)
(***************************************************************************)
Req(r) == finalization[r]
Resp(r) == finalization[r].response
Attested(r) == Resp(r).status = 200
Known(r) == Req(r).challengeId \in ChallengeIds
EndOf(r) == Chal(Req(r).challengeId).endTime
Decides(r) ==
    /\ Req(r).pc = "participants"
    /\ Req(r)'.pc # "participants"
    /\ Resp(r)'.status # 500
Confirmed(challengeId, a) ==
    \E p \in ParticipantRow(challengeId, a) : p.confirmed
Reflagged(rows, f) == {[p EXCEPT !.confirmed = f[p.wallet_address]] : p \in rows}
EveryoneConfirmed(challengeId) ==
    \A a \in Users :
        Part(challengeId, a).hasJoined => Confirmed(challengeId, toLowerCase(a))
Eligible(r) ==
    /\ Req(r).now >= EndOf(r)
    /\ \/ Req(r).now - EndOf(r) >= GRACE_PERIOD
       \/ EveryoneConfirmed(Req(r).challengeId)
CarriesCounts(r) == {"confirmedCount", "totalParticipants"} \subseteq Resp(r).has
CarriesTime(r) == Resp(r).has \cap {"timeRemaining", "timeUntilCanFinalize"} # {}

(* C21 as stated: an attestation is signed only at now >= end with the     *)
(* grace period over or every participant confirmed, and a request before  *)
(* that is refused with the confirmation counts and the time remaining;    *)
(* now is the time the endpoint read for the request.                      *)
C21_RefusalCarriesCounts ==
    \A r \in Requests :
        (Req(r).pc = "done" /\ Known(r) /\ Resp(r).status # 500) =>
            /\ Attested(r) =>
                  /\ Req(r).decidedAt >= EndOf(r)
                  /\ \/ Req(r).decidedAt - EndOf(r) >= GRACE_PERIOD
                     \/ EveryoneConfirmed(Req(r).challengeId)
            /\ Req(r).decidedAt < EndOf(r) =>
                  ~Attested(r) /\ CarriesCounts(r) /\ CarriesTime(r)

(* C21: the finalization endpoint signs only if now >= end and (now - end  *)
(* >= 7 days or every participant of the challenge has confirmed), now     *)
(* being the time the endpoint read for the request; otherwise it signs    *)
(* nothing and, for a challenge and participants it holds and unless a     *)
(* query fails, refuses: before the end with the time remaining and        *)
(* without confirmation counts, from the end on with the confirmation      *)
(* counts and the time remaining until the 7 days are over.  A request     *)
(* that may finalize is not refused any more: it ends with the signature,  *)
(* or with an error for want of mileage data or of a signing key.  With    *)
(* three joined participants the decision at now = end refuses with 0, 1   *)
(* or 2 of 3 confirmed and passes with all three.                          *)
C21_DecisionRule ==
    /\ [](\A r \in Requests :
            (Req(r).pc = "done" /\ Known(r)) =>
                /\ Attested(r) =>
                      /\ Req(r).decidedAt >= EndOf(r)
                      /\ \/ Req(r).decidedAt - EndOf(r) >= GRACE_PERIOD
                         \/ EveryoneConfirmed(Req(r).challengeId)
                /\ (Req(r).decidedAt < EndOf(r) /\ Resp(r).status \notin {404, 500}) =>
                      /\ Resp(r).error = "Challenge has not ended"
                      /\ Resp(r).has = {"endTime", "currentTime", "timeRemaining"}
                      /\ Resp(r).timeRemaining = EndOf(r) - Req(r).decidedAt)
    /\ [](\A f \in [OracleWallets -> BOOLEAN] :
            canFinalize(0, \A p \in Reflagged(Mirror(0, 3), f) : p.confirmed)
                <=> \A a \in OracleWallets : f[a])
    /\ [][\A r \in Requests :
            /\ Decides(r) =>
                  LET rows == ParticipantRows(Req(r).challengeId)
                      confirmed == {p \in rows : p.confirmed}
                  IN  /\ Req(r)'.pc = "mileage" => Eligible(r)
                      /\ (rows # {} /\ Eligible(r)) => Req(r)'.pc = "mileage"
                      /\ (rows # {} /\ ~Eligible(r)) =>
                            /\ Req(r)'.pc = "done"
                            /\ Resp(r)'.error = "Cannot finalize yet"
                            /\ "confirmedCount" \in Resp(r)'.has
                            /\ "totalParticipants" \in Resp(r)'.has
                            /\ "timeUntilCanFinalize" \in Resp(r)'.has
                            /\ Resp(r)'.confirmedCount = Cardinality(confirmed)
                            /\ Resp(r)'.totalParticipants = Cardinality(rows)
                            /\ Resp(r)'.timeUntilCanFinalize =
                                  EndOf(r) + GRACE_PERIOD - Req(r).now
            /\ (Req(r).pc \in {"mileage", "sign"} /\ Req(r)'.pc = "done") =>
                  \/ Attested(r)'
                  \/ Resp(r)'.status = 500
                  \/ Resp(r)'.error = "No mileage data found for participants"]_vars

(* Seven days after the end an attestation is signed for the three         *)
(* participants, none of whom has confirmed.                               *)
C21_Witness ==
    /\ Attested(1)
    /\ Req(1).decidedAt - EndOf(1) = GRACE_PERIOD
    /\ Resp(1).finalizationReason = "grace_period_expired"
    /\ Resp(1).confirmedCount = 0
    /\ Resp(1).totalParticipants = 3

Written(snapshots, challengeId, a) ==
    {i \in DOMAIN snapshots : /\ snapshots[i].challenge_id = challengeId
                              /\ snapshots[i].wallet_address = a}
LastMiles(snapshots, challengeId, a) ==
    LET ids == Written(snapshots, challengeId, a)
    IN  snapshots[CHOOSE i \in ids : \A j \in ids : j <= i].total_miles

(* C22: the winner an attestation names has joined the challenge, has a    *)
(* mileage snapshot, and its most recently written snapshot is at least    *)
(* the most recently written snapshot of every other joined participant,   *)
(* in the snapshot table as the request read it.                           *)
C22_WinnerHasMaxLatest ==
    \A r \in Requests :
        Attested(r) =>
            LET c == Req(r).challengeId
                w == Resp(r).winner
                snaps == Req(r).readSnapshots
            IN  /\ Part(c, getAddress(w)).hasJoined
                /\ Written(snaps, c, w) # {}
                /\ \A a \in Users :
                      (Part(c, a).hasJoined /\ Written(snaps, c, toLowerCase(a)) # {}) =>
                          LastMiles(snaps, c, w) >= LastMiles(snaps, c, toLowerCase(a))

(* An attestation for the other participant after a participant's earlier, *)
(* larger figure was overwritten by a smaller one.                         *)
C22_Witness ==
    /\ Attested(1)
    /\ \E a \in {toLowerCase(u) : u \in Users} :
          LET snaps == Req(1).readSnapshots
              ids == Written(snaps, 0, a)
          IN  /\ Resp(1).winner # a
              /\ \E i, j \in ids : i < j /\ snaps[i].total_miles > snaps[j].total_miles
              /\ snaps[CHOOSE i \in ids : \A j \in ids : i <= j].total_miles
                     >= LastMiles(snaps, 0, Resp(1).winner)

(* C23: two finalization requests that read the same participants, the    *)
(* same confirmations and the same snapshots name the same winner, also    *)
(* when participants share the maximum mileage.                            *)
C23_SameDataSameWinner ==
    \A r, q \in Requests :
        (/\ Attested(r) /\ Attested(q)
         /\ Req(r).challengeId = Req(q).challengeId
         /\ Req(r).readJoin = Req(q).readJoin
         /\ Req(r).readSnapshots = Req(q).readSnapshots)
            => Resp(r).winner = Resp(q).winner

(* C24: two finalization requests for the same challenge that overlap in   *)
(* time never return attestations naming two different winners.            *)
C24_OverlappingSameWinner ==
    \A r, q \in Requests :
        (/\ Attested(r) /\ Attested(q)
         /\ Req(r).challengeId = Req(q).challengeId
         /\ q \in Req(r).overlapped)
            => Resp(r).winner = Resp(q).winner

SameRow(p, q) ==
    p.challenge_id = q.challenge_id /\ p.wallet_address = q.wallet_address

(* C25: a confirmed flag becomes true only in the UPDATE of a confirm       *)
(* request whose checks were passed at ledger time now >= end, for an      *)
(* address that has a participant row and has joined, with a signature     *)
(* over the confirmation message of the challenge that recovers to that    *)
(* address; a confirm request before the end, with another identity's      *)
(* signature or for a non-participant is refused and changes no flag; and  *)
(* a flag that is true stays true.                                         *)
C25_ConfirmedBySelfAfterEnd ==
    /\ [](\A id \in ConfirmIds, a \in ConfirmWallets : \A sig \in ConfirmSignatures(0) :
            /\ confirmRevert(id, a, sig) = OK => id \in ChallengeIds
            /\ confirmParticipantRevert(id, a, sig) = OK =>
                  /\ id \in ChallengeIds
                  /\ ParticipantRow(id, a) # {}
                  /\ Part(id, getAddress(a)).hasJoined
                  /\ sig = Sign(getAddress(a), confirmMessage(id)))
    /\ [](\A c \in ConfirmRequests :
            LET req == confirmation[c]
            IN  /\ req.pc \in {"clock", "participant", "update"} =>
                      /\ req.challengeId \in ChallengeIds
                      /\ req.end_time = Chal(req.challengeId).endTime
                /\ req.pc \in {"participant", "update"} =>
                      now >= Chal(req.challengeId).endTime
                /\ req.pc = "update" =>
                      /\ ParticipantRow(req.challengeId, req.walletAddress) # {}
                      /\ Part(req.challengeId, getAddress(req.walletAddress)).hasJoined
                      /\ req.signature = Sign(getAddress(req.walletAddress),
                                              confirmMessage(req.challengeId)))
    /\ [][\A c \in ConfirmRequests :
            LET req == confirmation[c]
            IN  /\ (req.pc # "clock" /\ confirmation'[c].pc = "clock") =>
                      /\ req.pc = "idle"
                      /\ confirm(c, confirmation'[c].challengeId,
                                 confirmation'[c].walletAddress, confirmation'[c].signature)
                /\ (req.pc # "participant" /\ confirmation'[c].pc = "participant") =>
                      /\ req.pc = "clock"
                      /\ now >= Chal(req.challengeId).endTime
                /\ (req.pc = "clock" /\ now < Chal(req.challengeId).endTime) =>
                      confirmation'[c].pc \in {"clock", "idle"}
                /\ (req.pc # "update" /\ confirmation'[c].pc = "update") =>
                      /\ req.pc = "participant"
                      /\ confirmParticipantRevert(req.challengeId, req.walletAddress,
                                                  req.signature) = OK]_vars
    /\ [][db_participants' # db_participants =>
            /\ \A p \in db_participants :
                  p.confirmed => \E q \in db_participants' : SameRow(p, q) /\ q.confirmed
            /\ \A q \in db_participants' :
                  (q.confirmed /\ ~Confirmed(q.challenge_id, q.wallet_address)) =>
                      \E c \in ConfirmRequests :
                          /\ confirmation[c].pc = "update"
                          /\ confirmation[c].challengeId = q.challenge_id
                          /\ confirmation[c].walletAddress = q.wallet_address
                          /\ confirmUpdate(c)]_vars

(* B has confirmed, A has not.                                             *)
C25_Witness == Confirmed(0, "b") /\ ParticipantRow(0, "a") # {} /\ ~Confirmed(0, "a")

Winners(snapshots, rows, challengeId) ==
    {s[1].wallet_address : s \in mileageResult(snapshots, rows, challengeId) \ {<<>>}}
Issues(r) == Req(r).pc = "sign" /\ Attested(r)'
ClaimByWinner(r) ==
    claimPrizeWithSignatureRevert(getAddress(Resp(r)'.winner), Req(r).challengeId,
                                  getAddress(Resp(r)'.winner), Resp(r)'.dataHash,
                                  Resp(r)'.timestamp, Resp(r)'.signature)

(* C26: for the same mileage snapshots the winners the mileage query can   *)
(* name are the same whatever the confirmed flags are; and an attestation  *)
(* issued to a request that arrived at now - end >= 7 days and names a     *)
(* participant who has not confirmed lets that participant claim the pool. *)
C26_ConfirmationTimingOnly ==
    /\ [](\A f \in [OracleWallets -> BOOLEAN] :
            Winners(mileage_snapshots, Reflagged(ParticipantRows(0), f), 0)
                = Winners(mileage_snapshots, ParticipantRows(0), 0))
    /\ [][\A r \in Requests :
            (/\ Issues(r)
             /\ Req(r).now - EndOf(r) >= GRACE_PERIOD
             /\ ~Confirmed(Req(r).challengeId, Resp(r)'.winner))
                => ClaimByWinner(r) = OK]_vars

(* C27: the results an attestation commits to hold exactly one entry per   *)
(* joined participant of the challenge, also for a participant without a   *)
(* mileage snapshot, and the commitment is the hash of these results.      *)
C27_ResultsCoverAllJoined ==
    \A r \in Requests :
        Attested(r) =>
            LET c == Req(r).challengeId
                results == Resp(r).results
            IN  /\ {getAddress(results[i].address) : i \in DOMAIN results}
                      = {a \in Users : Part(c, a).hasJoined}
                /\ \A i, j \in DOMAIN results :
                      results[i].address = results[j].address => i = j
                /\ Resp(r).dataHash = keccak256(results)

C29_AttestationUsableWhenIssued ==
    [][\A r \in Requests :
        Issues(r) =>
            /\ getEffectiveState(Req(r).challengeId) = GRACE
            /\ now >= EndOf(r)
            /\ now < EndOf(r) + EMERGENCY_PERIOD
            /\ Resp(r)'.timestamp <= now
            /\ ClaimByWinner(r) = OK]_vars

ClaimEnabled(challengeId) ==
    \E call \in ClaimCalls(challengeId) :
        claimPrizeWithSignatureRevert(call.sender, challengeId, call.winner,
                                      call.dataHash, call.timestamp, call.signature) = OK
EmergencyEnabled(challengeId) ==
    \E a \in Users : emergencyWithdrawRevert(a, challengeId) = OK

(* C30: claimPrizeWithSignature and emergencyWithdraw are never both       *)
(* enabled for a challenge; and when claimPrizeWithSignature succeeds, no  *)
(* withdrawFromCancelled or emergencyWithdraw has succeeded on the         *)
(* challenge before, every whitelisted identity has joined, and the prize  *)
(* paid is stakeAmount times the length of the whitelist.                  *)
C30_ClaimAndEmergencyDisjoint ==
    /\ [](\A c \in ChallengeIds : ~(ClaimEnabled(c) /\ EmergencyEnabled(c)))
    /\ [][(lastOp' = "claimPrizeWithSignature" /\ result' = OK) =>
          \A c \in ChallengeIds :
             lastId' = c =>
                /\ \A a \in Users : hist[c + 1].refunds[a] = 0
                /\ \A i \in 1 .. Len(Allowed(c)) : Part(c, Allowed(c)[i]).hasJoined
                /\ balance - balance' = Chal(c).stakeAmount * Len(Allowed(c))
                /\ hist'[c + 1].prize = Chal(c).stakeAmount * Len(Allowed(c))
                /\ ~EmergencyOpen(c)]_vars

(* the prize of a whitelist of two was claimed in the last week before the *)
(* emergency window, nothing having been withdrawn                         *)
C30_Witness ==
    /\ lastOp = "claimPrizeWithSignature"
    /\ result = OK
    /\ \E c \in ChallengeIds :
          /\ Len(Allowed(c)) = 2
          /\ hist[c + 1].prize = 2 * Chal(c).stakeAmount
          /\ \A a \in Users : hist[c + 1].refunds[a] = 0
          /\ now >= Chal(c).endTime + GRACE_PERIOD
          /\ now < Chal(c).endTime + EMERGENCY_PERIOD

(* C31: every successful cancelChallengeByConsent carries the signature of *)
(* at least one joined participant; a call with an empty signature list    *)
(* never moves a challenge to CANCELLED.                                   *)
C31_CancelNeedsASignature ==
    [][(lastOp' = "cancelChallengeByConsent" /\ result' = OK) =>
       \A c \in ChallengeIds : \A signatures \in CancelCalls(c) :
         cancelChallengeByConsent(c, signatures) =>
            /\ Len(signatures) >= 1
            /\ \E i \in 1 .. Len(signatures) :
                  Part(c, recover(cancelMessage(c), signatures[i])).hasJoined]_vars

(* Claims that present a non-zero hash for the caller with a signature of  *)
(* an oracle key, current or not, over the finalize message of the call.   *)
KeyedClaimCalls(challengeId) ==
    {call \in ClaimCalls(challengeId) :
        /\ call.sender = call.winner
        /\ call.dataHash # ZeroHash
        /\ call.signature.signer \in OracleKeys
        /\ call.signature.msg = finalizeMessage(challengeId, call.winner, call.dataHash,
                                                call.timestamp)}

(* The conditions of a claim other than the signature's key.               *)
ClaimConditions(c, call) ==
    /\ getEffectiveState(c) = GRACE
    /\ now < Chal(c).endTime + EMERGENCY_PERIOD
    /\ Part(c, call.winner).hasJoined
    /\ call.timestamp <= now
    /\ now - call.timestamp < SIGNATURE_MAX_AGE

(* C32: a claim presenting an attestation is accepted exactly when its     *)
(* other conditions hold and the attestation is signed with the key stored *)
(* as oracle at the time of the claim: after updateOracle an attestation   *)
(* of the previous key is rejected, whenever it was signed, and one of the *)
(* new key is accepted; the key stored is always one, non-null key.        *)
C32_OnlyCurrentKeyAuthorises ==
    /\ [](oracle # ZERO)
    /\ [][(lastOp' = "claimPrizeWithSignature" /\ result' = OK) =>
          \A c \in ChallengeIds : \A call \in KeyedClaimCalls(c) :
            claimPrizeWithSignature(call.sender, c, call.winner, call.dataHash,
                                    call.timestamp, call.signature) =>
               (ClaimConditions(c, call) /\ call.signature.signer = oracle)]_vars
    /\ [](\A c \in ChallengeIds :
            \A call \in {x \in KeyedClaimCalls(c) : ClaimConditions(c, x)} :
              claimPrizeWithSignatureRevert(call.sender, c, call.winner, call.dataHash,
                                            call.timestamp, call.signature)
                = IF call.signature.signer = oracle
                  THEN OK ELSE "Invalid oracle signature")

(* after the rotation to the second key, a claim on a fully joined         *)
(* challenge in its claim window was rejected for its signature            *)
C32_Witness ==
    /\ lastOp = "claimPrizeWithSignature"
    /\ result = "Invalid oracle signature"
    /\ oracle = "O2"
    /\ lastId \in ChallengeIds
    /\ getEffectiveState(lastId) = GRACE
    /\ now < Chal(lastId).endTime + EMERGENCY_PERIOD

(* C33: the stored state of a challenge is only ever PENDING, CANCELLED or *)
(* COMPLETED: ACTIVE, GRACE_PERIOD and FINALIZED are never stored, so no   *)
(* claimPrize call succeeds; the winner field is set exactly when the      *)
(* stored state is COMPLETED.                                              *)
C33_StoredStatesAndWinner ==
    /\ [](\A c \in ChallengeIds :
            /\ Chal(c).state \in {PENDING, CANCELLED, COMPLETED}
            /\ (Chal(c).winner # ZERO) <=> (Chal(c).state = COMPLETED)
            /\ \A sender \in Users : claimPrizeRevert(sender, c) # OK)
    /\ [][lastOp' = "claimPrize" => (result' # OK /\ storage' = storage)]_vars

(* the recorded winner of a completed challenge called claimPrize and was  *)
(* rejected                                                                *)
C33_Witness ==
    /\ lastOp = "claimPrize"
    /\ result = "Challenge not finalized"
    /\ lastId \in ChallengeIds
    /\ Chal(lastId).state = COMPLETED
    /\ Chal(lastId).winner \in Users

(* C34: a challenge whose effective state is PENDING has not reached its   *)
(* start time and one whose effective state is GRACE_PERIOD has reached    *)
(* its end time, so joinChallenge is never rejected with "Registration     *)
(* closed" and claimPrizeWithSignature never with "Challenge not ended".   *)
C34_TimeChecksUnreachable ==
    /\ result \notin {"Registration closed", "Challenge not ended"}
    /\ \A c \in ChallengeIds :
          /\ getEffectiveState(c) = PENDING => now < Chal(c).startTime
          /\ getEffectiveState(c) = GRACE => now >= Chal(c).endTime
          /\ \A sender \in Users, stravaUserId \in StravaIds, value \in SentValues :
                joinChallengeRevert(sender, c, stravaUserId, value) # "Registration closed"
          /\ \A call \in ClaimCalls(c) :
                claimPrizeWithSignatureRevert(call.sender, c, call.winner, call.dataHash,
                                              call.timestamp, call.signature)
                  # "Challenge not ended"

(* a whitelisted identity tried to join at or after the start time and was *)
(* rejected for the state of the challenge                                 *)
C34_Witness ==
    /\ lastOp = "joinChallenge"
    /\ result = "Challenge not accepting participants"
    /\ lastId \in ChallengeIds
    /\ now >= Chal(lastId).startTime
    /\ Chal(lastId).state = PENDING

(* C35: participantCount is the number of joined records, every joined     *)
(* identity is on the whitelist, getParticipants lists exactly the joined  *)
(* identities, and no step lowers participantCount or clears a joined      *)
(* flag: a withdrawal leaves both as they were.                            *)
C35_ParticipantCountIsJoined ==
    /\ [](\A c \in ChallengeIds :
            /\ Chal(c).participantCount = Cardinality(Joined(c))
            /\ Joined(c) \subseteq Range(Allowed(c))
            /\ Chal(c).participantCount <= Len(Allowed(c))
            /\ Range(getParticipants(c)) = Joined(c)
            /\ Len(getParticipants(c)) = Chal(c).participantCount)
    /\ [][\A c \in ChallengeIds :
            /\ challenges'[c + 1].participantCount >= Chal(c).participantCount
            /\ \A a \in Addresses : Part(c, a).hasJoined => participants'[c + 1][a].hasJoined
            /\ (lastOp' \in {"withdrawFromCancelled", "emergencyWithdraw"} /\ result' = OK)
                 => /\ challenges'[c + 1].participantCount = Chal(c).participantCount
                    /\ \A a \in Addresses :
                          participants'[c + 1][a].hasJoined = Part(c, a).hasJoined]_vars

(* a participant took the stake back from a cancelled challenge and is     *)
(* still counted and listed as joined                                      *)
C35_Witness ==
    /\ lastOp = "withdrawFromCancelled"
    /\ result = OK
    /\ lastId \in ChallengeIds
    /\ Chal(lastId).participantCount = 2
    /\ \E a \in Users : /\ Part(lastId, a).hasJoined
                         /\ Part(lastId, a).stake = 0
                         /\ hist[lastId + 1].refunds[a] = 1
                         /\ a \in Range(getParticipants(lastId))

(* The challenge of the minimum-participants ledger and who has joined it. *)
LazyChal(k) == lazy.challenges[k]
LazyJoined(k) == {a \in Addresses : lazy.participants[k][a].hasJoined}

(* C36: in the minimum-participants ledger finalizeChallenge succeeds only *)
(* for the oracle, in effective state GRACE_PERIOD, from the end time and  *)
(* before end + 14 days, for a joined winner and a non-zero hash.  From    *)
(* then on the stored and the effective state are FINALIZED and no call on *)
(* the challenge succeeds (emergencyWithdraw, cancelChallengeByConsent and *)
(* claimPrizeWithSignature included), until claimPrize by the recorded     *)
(* winner, which succeeds, pays the whole totalStaked to the winner, once, *)
(* and stores COMPLETED.                                                   *)
C36_FinalizeThenClaimPrize ==
    /\ [](\A k \in ChallengeKeys :
            /\ \A sender \in Finalizers, winner \in FinalizeWinners, dataHash \in DataHashes :
                  lazy_finalizeChallengeRevert(sender, k, winner, dataHash) = OK
                    => /\ sender = lazy.oracle
                       /\ lazy_getEffectiveState(k) = GRACE
                       /\ LazyChal(k).endTime <= now
                       /\ now < LazyChal(k).endTime + EMERGENCY_PERIOD
                       /\ winner \in LazyJoined(k)
                       /\ dataHash # ZeroHash
            /\ LazyChal(k).state = FINALIZED
                    => /\ lazy_getEffectiveState(k) = FINALIZED
                       /\ LazyChal(k).winner \in LazyJoined(k)
                       /\ LazyChal(k).finalDataHash # ZeroHash
                       /\ lazy.prizeClaimed[k] = <<>>
                       /\ LazyChal(k).totalStaked
                             = LazyChal(k).participantCount * LazyChal(k).stakeAmount
                       /\ \A sender \in Users :
                             (lazy_claimPrizeRevert(sender, k) = OK)
                               <=> (sender = LazyChal(k).winner)
            /\ Len(lazy.prizeClaimed[k]) <= 1)
    /\ [][\A k \in ChallengeKeys :
            /\ (LazyChal(k).state # FINALIZED /\ lazy'.challenges[k].state = FINALIZED)
                 => /\ lastOp' = "finalizeChallenge" /\ result' = OK
                    /\ lazy_getEffectiveState(k) = GRACE
                    /\ LazyChal(k).endTime <= now
                    /\ now < LazyChal(k).endTime + EMERGENCY_PERIOD
            /\ (lastOp' = "finalizeChallenge" /\ result' = OK /\ lastId' = k)
                 => lazy'.challenges[k].state = FINALIZED
            /\ LazyChal(k).state = FINALIZED
                 => \/ /\ lastOp' = "claimPrize" /\ result' = OK /\ lastId' = k
                       /\ lazy'.challenges[k].state = COMPLETED
                       /\ lazy'.challenges[k].totalStaked = 0
                       /\ lazy'.prizeClaimed[k]
                             = <<<<LazyChal(k).winner, LazyChal(k).totalStaked>>>>
                       /\ lazy'.balance = lazy.balance - LazyChal(k).totalStaked
                    \/ /\ ~(lastId' = k /\ result' = OK)
                       /\ lazy'.challenges = lazy.challenges
                       /\ lazy'.participants = lazy.participants
                       /\ lazy'.balance = lazy.balance
                       /\ lazy'.prizeClaimed = lazy.prizeClaimed]_vars

(* the recorded winner took the whole stake of three participants with     *)
(* claimPrize, after the emergency time of the finalized challenge         *)
C36_Witness ==
    /\ lastOp = "claimPrize"
    /\ result = OK
    /\ lastId \in ChallengeKeys
    /\ LazyChal(lastId).state = COMPLETED
    /\ LazyChal(lastId).participantCount = 3
    /\ lazy.prizeClaimed[lastId]
          = <<<<LazyChal(lastId).winner, 3 * LazyChal(lastId).stakeAmount>>>>
    /\ now >= LazyChal(lastId).endTime + EMERGENCY_PERIOD

(* The challenge of the explicit-transition ledger. *)
ExplicitChal(k) == explicit.challenges[k]

(* C37: whenever the two ledgers have accepted the same createChallenge    *)
(* and joinChallenge calls and no activateChallenge or endChallenge is due *)
(* on the explicit one, the state computed by getEffectiveState of the     *)
(* lazy ledger is the state stored by the explicit ledger: PENDING before  *)
(* the start time; from the start time CANCELLED if fewer than             *)
(* minParticipants have joined, else ACTIVE; GRACE_PERIOD from the end     *)
(* time.  In such a state both ledgers accept and reject the same          *)
(* createChallenge and joinChallenge calls, with the same reason.          *)
C37_LazyEqualsExplicit ==
    (SameCalls /\ Settled) =>
      \A k \in ChallengeKeys :
        /\ ExplicitChal(k).creator # ZERO =>
              /\ lazy_getEffectiveState(k) = ExplicitChal(k).state
              /\ LazyChal(k).state = PENDING
              /\ ExplicitChal(k).state =
                    IF now < ExplicitChal(k).startTime THEN PENDING
                    ELSE IF ExplicitChal(k).participantCount < ExplicitChal(k).minParticipants
                         THEN CANCELLED
                    ELSE IF now < ExplicitChal(k).endTime THEN ACTIVE
                    ELSE GRACE
        /\ \A startTime \in LifecycleStarts, minParticipants \in LifecycleMinimum :
              lazy_createChallengeRevert("A", k, startTime, DeployTime + 3 * TickStep,
                                         OracleStake, minParticipants)
                = explicit_createChallengeRevert("A", k, startTime,
                                                 DeployTime + 3 * TickStep, OracleStake,
                                                 minParticipants)
        /\ \A sender \in Users, stravaUserId \in StravaIds, value \in SentValues :
              lazy_joinChallengeRevert(sender, k, stravaUserId, value)
                = explicit_joinChallengeRevert(sender, k, stravaUserId, value)

(* a challenge with its minimum of two participants, created and joined on *)
(* both ledgers, has been ended on the explicit one from its end time      *)
C37_Witness ==
    /\ lastOp = "endChallenge"
    /\ result = OK
    /\ lastId \in ChallengeKeys
    /\ SameCalls
    /\ Settled
    /\ ExplicitChal(lastId).state = GRACE
    /\ ExplicitChal(lastId).creator # ZERO
    /\ ExplicitChal(lastId).participantCount = 2
    /\ lazy_getEffectiveState(lastId) = GRACE
    /\ LazyChal(lastId).state = PENDING

==========================================================================
